---------------------------- MODULE Spec2Model ----------------------------
(***************************************************************************)
(* Model of the WhatsApp Web client library: the QR key-exchange handshake *)
(* (whatsapp_web_py/auth/qr_auth.py), the top-level client                 *)
(* (whatsapp_web_py/client.py) and the primitives they call                *)
(* (whatsapp_web_py/crypto).                                               *)
(*                                                                         *)
(* Byte strings are sequences over 0..255 with the lengths of the source   *)
(* (32-byte keys, 96-byte minimum blob, 80-byte expansion, 16-byte IV).    *)
(* The library primitives the code calls (SHA-256, the AES block cipher,   *)
(* the X25519 group) are replaced by small deterministic stand-ins with    *)
(* the same interface: a digest of 32 bytes, an invertible block           *)
(* transformation, a Diffie-Hellman group.  Everything the repository      *)
(* itself does around them (slicing, chaining, padding, comparison,        *)
(* exception handling) is modelled as written.                             *)
(***************************************************************************)
EXTENDS Integers, Sequences, FiniteSets, TLC

(***************************************************************************)
(* Python values                                                           *)
(***************************************************************************)
\* Every Python value of type bytes or str is a sequence of numbers; None and a
\* raised exception are two sequences no byte string equals
None == << -1 >>
Raise == << -2 >>

Min(a, b) == IF a < b THEN a ELSE b

\* Python s[a:b] on a byte string (0-based, clamped to the length)
PySlice(s, a, b) == SubSeq(s, Min(a, Len(s)) + 1, Min(b, Len(s)))

\* Python s[a:]
PyFrom(s, a) == SubSeq(s, Min(a, Len(s)) + 1, Len(s))

(***************************************************************************)
(* Library stand-ins                                                       *)
(***************************************************************************)
\* a position-weighted checksum of the bytes of s, summed by halving
Mix(s) ==
    LET part[lo \in 1..(Len(s) + 1), hi \in 0..Len(s)] ==
            IF lo > hi THEN 0
            ELSE IF lo = hi THEN ((s[lo] + 1) * (lo * lo + 3 * lo + 1)) % 65521
            ELSE LET mid == (lo + hi) \div 2
                 IN  (part[lo, mid] + part[mid + 1, hi]) % 65521
    IN  part[1, Len(s)]

\* the 32 bytes drawn from the checksum h
Digest(h) == [i \in 1..32 |-> ((h + i) * (2 * i + 1) + (h \div 256)) % 256] \o << >>

\* hashlib.sha256(...).digest(): 32 bytes that depend on every input byte
sha256(s) == Digest((Mix(s) + 7 * Len(s) + 11) % 65521)

\* hmac.new(key, data, hashlib.sha256).digest()
hmac_new(key, data) == sha256(key \o sha256(key \o data))

\* a comparison that leaves out the last byte of the two digests
compare_truncated(a, b) == SubSeq(a, 1, Len(a) - 1) = SubSeq(b, 1, Len(b) - 1)

\* hmac.compare_digest(a, b)
compare_digest(a, b) == a = b

\* b to the power e in the group
PowMod(b, e) ==
    LET p[k \in 0..e] == IF k = 0 THEN 1 ELSE (b * p[k - 1]) % 251
    IN  p[e]

\* the scalar a 32-byte private key stands for
Scalar(priv) == (priv[1] % 10) + 1

\* a group element as a 32-byte string
Encode32(n) == [i \in 1..32 |-> IF i = 1 THEN n ELSE 0] \o << >>

\* X25519PrivateKey.public_key() of a raw private key
public_of(priv) == Encode32(PowMod(6, Scalar(priv)))

\* the AES block transformation on one 16-byte block, and its inverse
KeyByte(key, i) == key[((i - 1) % Len(key)) + 1]
EncBlock(key, blk) == [i \in 1..16 |-> (blk[i] + KeyByte(key, i) + i) % 256] \o << >>
DecBlock(key, blk) == [i \in 1..16 |-> (blk[i] - KeyByte(key, i) - i) % 256] \o << >>

\* the CBC combination of a block with the previous ciphertext block
Mask(blk, prev) == [i \in 1..16 |-> (blk[i] + prev[i]) % 256] \o << >>
Unmask(blk, prev) == [i \in 1..16 |-> (blk[i] - prev[i]) % 256] \o << >>

\* CBC encryption of whole blocks: block j is the transformation of plaintext
\* block j combined with ciphertext block j-1 (the IV for the first)
CbcEnc(key, iv, data) ==
    LET n == Len(data) \div 16
        c[j \in 0..n] ==
            IF j = 0 THEN iv
            ELSE EncBlock(key, Mask(SubSeq(data, 16 * j - 15, 16 * j), c[j - 1]))
        out[j \in 0..n] == IF j = 0 THEN << >> ELSE out[j - 1] \o c[j]
    IN  out[n]

\* CBC decryption of whole blocks
CbcDec(key, iv, data) ==
    LET n == Len(data) \div 16
        prev(j) == IF j = 1 THEN iv ELSE SubSeq(data, 16 * j - 31, 16 * j - 16)
        p(j) == Unmask(DecBlock(key, SubSeq(data, 16 * j - 15, 16 * j)), prev(j))
    IN  [i \in 1..(16 * n) |-> p(((i - 1) \div 16) + 1)[((i - 1) % 16) + 1]] \o << >>

\* padding.PKCS7(128).padder()
Pkcs7Pad(data) ==
    LET n == 16 - (Len(data) % 16)
    IN  data \o [i \in 1..n |-> n]

\* padding.PKCS7(128).unpadder(): raises on an invalid padding
Pkcs7Unpad(data) ==
    IF Len(data) = 0 \/ Len(data) % 16 # 0 THEN Raise
    ELSE LET n == data[Len(data)]
         IN  IF n < 1 \/ n > 16 THEN Raise
             ELSE IF \E i \in (Len(data) - n + 1)..Len(data) : data[i] # n
                  THEN Raise
                  ELSE SubSeq(data, 1, Len(data) - n)


(***************************************************************************)
(* base64: text is a sequence of sextets 0..63, 64 standing for '='        *)
(***************************************************************************)
\* the three bytes (0 past the end) of group g of b
B64Byte(b, g, k) == IF 3 * g + k <= Len(b) THEN b[3 * g + k] ELSE 0

\* base64.b64encode(b)
b64encode(b) ==
    [j \in 1..(4 * ((Len(b) + 2) \div 3)) |->
        LET g == (j - 1) \div 4
            k == (j - 1) % 4
            b1 == B64Byte(b, g, 1)
            b2 == B64Byte(b, g, 2)
            b3 == B64Byte(b, g, 3)
        IN  CASE k = 0 -> b1 \div 4
              [] k = 1 -> (b1 % 4) * 16 + (b2 \div 16)
              [] k = 2 -> IF 3 * g + 2 > Len(b) THEN 64
                          ELSE (b2 % 16) * 4 + (b3 \div 64)
              [] OTHER -> IF 3 * g + 3 > Len(b) THEN 64 ELSE b3 % 64] \o << >>

\* the number of '=' that end the text
B64Pads(t) ==
    IF Len(t) >= 2 /\ t[Len(t)] = 64 /\ t[Len(t) - 1] = 64 THEN 2
    ELSE IF Len(t) >= 1 /\ t[Len(t)] = 64 THEN 1
    ELSE 0

\* base64.b64decode(t): raises binascii.Error on an incorrectly padded text
b64decode(t) ==
    IF Len(t) % 4 # 0 THEN Raise
    ELSE [i \in 1..(3 * (Len(t) \div 4) - B64Pads(t)) |->
            LET g == (i - 1) \div 3
                k == (i - 1) % 3
            IN  CASE k = 0 -> t[4 * g + 1] * 4 + (t[4 * g + 2] \div 16)
                  [] k = 1 -> (t[4 * g + 2] % 16) * 16 + (t[4 * g + 3] \div 4)
                  [] OTHER -> (t[4 * g + 3] % 4) * 64 + t[4 * g + 4]] \o << >>

(***************************************************************************)
(* crypto/curve.py, crypto/hkdf.py, crypto/aes.py                          *)
(***************************************************************************)
\* Curve25519.compute_shared_secret: the key loaders raise on anything that
\* is not a 32-byte string; the exception is re-raised
compute_shared_secret(priv, pub) ==
    IF priv = None \/ pub = None THEN Raise
    ELSE IF Len(priv) # 32 \/ Len(pub) # 32 THEN Raise
    ELSE Encode32(PowMod(pub[1] % 251, Scalar(priv)))

\* bit b of the byte v
BitOf(v, b) == (v \div (2 ^ b)) % 2

\* v & m on bytes
BitAnd(v, m) ==
    LET s[b \in 0..8] ==
            IF b = 8 THEN 0
            ELSE (2 ^ b) * BitOf(v, b) * BitOf(m, b) + s[b + 1]
    IN  s[0]

\* v | m on bytes
BitOr(v, m) ==
    LET s[b \in 0..8] ==
            IF b = 8 THEN 0
            ELSE (2 ^ b) * (IF BitOf(v, b) + BitOf(m, b) > 0 THEN 1 ELSE 0)
                    + s[b + 1]
    IN  s[0]

\* ---------------------------------------------------------------------
\* hashlib.sha256 and hmac.new(key, msg, hashlib.sha256) computed bit for
\* bit (FIPS 180-4, RFC 2104).  A 32-bit word is a pair << high, low >> of
\* 16-bit halves.
\* ---------------------------------------------------------------------
\* x & y for every pair of bytes, computed once
AndTable ==
    [i \in 1..256 |-> [j \in 1..256 |-> BitAnd(i - 1, j - 1)] \o << >>] \o << >>

And16(x, y) ==
    256 * AndTable[(x \div 256) + 1][(y \div 256) + 1]
        + AndTable[(x % 256) + 1][(y % 256) + 1]

Xor16(x, y) == x + y - 2 * And16(x, y)

And32(x, y) == << And16(x[1], y[1]), And16(x[2], y[2]) >>

Xor32(x, y) == << Xor16(x[1], y[1]), Xor16(x[2], y[2]) >>

Add32(x, y) ==
    << (x[1] + y[1] + ((x[2] + y[2]) \div 65536)) % 65536, (x[2] + y[2]) % 65536 >>

Shr32(x, n) ==
    IF n >= 16 THEN << 0, x[1] \div (2 ^ (n - 16)) >>
    ELSE << x[1] \div (2 ^ n), (x[2] \div (2 ^ n)) + (x[1] % (2 ^ n)) * (2 ^ (16 - n)) >>

Rotr32(x, n) ==
    IF n >= 16
    THEN << (x[2] \div (2 ^ (n - 16))) + (x[1] % (2 ^ (n - 16))) * (2 ^ (32 - n)),
            (x[1] \div (2 ^ (n - 16))) + (x[2] % (2 ^ (n - 16))) * (2 ^ (32 - n)) >>
    ELSE << (x[1] \div (2 ^ n)) + (x[2] % (2 ^ n)) * (2 ^ (16 - n)),
            (x[2] \div (2 ^ n)) + (x[1] % (2 ^ n)) * (2 ^ (16 - n)) >>

Ch(e, f, g) == Xor32(And32(e, f), << g[1] - And16(e[1], g[1]), g[2] - And16(e[2], g[2]) >>)

Maj(a, b, c) == Xor32(Xor32(And32(a, b), And32(a, c)), And32(b, c))

BigSigma0(x) == Xor32(Xor32(Rotr32(x, 2), Rotr32(x, 13)), Rotr32(x, 22))

BigSigma1(x) == Xor32(Xor32(Rotr32(x, 6), Rotr32(x, 11)), Rotr32(x, 25))

SmallSigma0(x) == Xor32(Xor32(Rotr32(x, 7), Rotr32(x, 18)), Shr32(x, 3))

SmallSigma1(x) == Xor32(Xor32(Rotr32(x, 17), Rotr32(x, 19)), Shr32(x, 10))

Sha256K ==
    <<
      << 17034, 12184 >>, << 28983, 17553 >>, << 46528, 64463 >>, << 59829, 56229 >>,
      << 14678, 49755 >>, << 23025, 4593 >>, << 37439, 33444 >>, << 43804, 24277 >>,
      << 55303, 43672 >>, << 4739, 23297 >>, << 9265, 34238 >>, << 21772, 32195 >>,
      << 29374, 23924 >>, << 32990, 45566 >>, << 39900, 1703 >>, << 49563, 61812 >>,
      << 58523, 27073 >>, << 61374, 18310 >>, << 4033, 40390 >>, << 9228, 41420 >>,
      << 11753, 11375 >>, << 19060, 33962 >>, << 23728, 43484 >>, << 30457, 35034 >>,
      << 38974, 20818 >>, << 43057, 50797 >>, << 45059, 10184 >>, << 48985, 32711 >>,
      << 50912, 3059 >>, << 54695, 37191 >>, << 1738, 25425 >>, << 5161, 10599 >>,
      << 10167, 2693 >>, << 11803, 8504 >>, << 19756, 28156 >>, << 21304, 3347 >>,
      << 25866, 29524 >>, << 30314, 2747 >>, << 33218, 51502 >>, << 37490, 11397 >>,
      << 41663, 59553 >>, << 43034, 26187 >>, << 49739, 35696 >>, << 51052, 20899 >>,
      << 53650, 59417 >>, << 54937, 1572 >>, << 62478, 13701 >>, << 4202, 41072 >>,
      << 6564, 49430 >>, << 7735, 27656 >>, << 10056, 30540 >>, << 13488, 48309 >>,
      << 14620, 3251 >>, << 20184, 43594 >>, << 23452, 51791 >>, << 26670, 28659 >>,
      << 29839, 33518 >>, << 30885, 25455 >>, << 33992, 30740 >>, << 36039, 520 >>,
      << 37054, 65530 >>, << 42064, 27883 >>, << 48889, 41975 >>, << 50801, 30962 >>
    >>

Sha256H0 ==
    <<
      << 27145, 58983 >>, << 47975, 44677 >>, << 15470, 62322 >>, << 42319, 62778 >>,
      << 20750, 21119 >>, << 39685, 26764 >>, << 8067, 55723 >>, << 23520, 52505 >>
    >>

\* message || 0x80 || zeros || 64-bit big-endian bit length, a multiple of 64 bytes
Sha256Pad(msg) ==
    msg \o << 128 >> \o [i \in 1..((55 - Len(msg)) % 64) |-> 0]
        \o << 0, 0, 0, 0 >>
        \o << ((8 * Len(msg)) \div 16777216) % 256, ((8 * Len(msg)) \div 65536) % 256,
              ((8 * Len(msg)) \div 256) % 256, (8 * Len(msg)) % 256 >>

\* the sixteen words of the block that starts after byte o
BlockWords(m, o) ==
    [i \in 1..16 |-> << 256 * m[o + 4 * i - 3] + m[o + 4 * i - 2],
                        256 * m[o + 4 * i - 1] + m[o + 4 * i] >>] \o << >>

\* the message schedule, grown from 16 to 64 words
RECURSIVE Schedule(_)
Schedule(w) ==
    IF Len(w) >= 64 THEN w
    ELSE Schedule(Append(w, Add32(Add32(SmallSigma1(w[Len(w) - 1]), w[Len(w) - 6]),
                                 Add32(SmallSigma0(w[Len(w) - 14]), w[Len(w) - 15]))))

\* T1 of the round with working variables s, constant k and schedule word w
RoundT1(s, k, w) ==
    Add32(Add32(Add32(s[8], BigSigma1(s[5])), Add32(Ch(s[5], s[6], s[7]), k)), w)

\* the working variables after a round whose T1 is t1
RoundWith(s, t1) ==
    << Add32(t1, Add32(BigSigma0(s[1]), Maj(s[1], s[2], s[3]))),
       s[1], s[2], s[3], Add32(s[4], t1), s[5], s[6], s[7] >>

Round(s, k, w) == RoundWith(s, RoundT1(s, k, w))

RECURSIVE Rounds(_, _, _)
Rounds(s, w, t) ==
    IF t > 64 THEN s
    ELSE IF Len(s) = 8 THEN Rounds(Round(s, Sha256K[t], w[t]), w, t + 1)
    ELSE Raise

\* the chaining value h with the working variables s added word by word
AddWords(h, s) == [i \in 1..8 |-> Add32(h[i], s[i])] \o << >>

Compress(h, w) == AddWords(h, Rounds(h, w, 1))

RECURSIVE Sha256Blocks(_, _, _)
Sha256Blocks(h, m, o) ==
    IF o >= Len(m) THEN h
    ELSE IF Len(h) = 8 THEN Sha256Blocks(Compress(h, Schedule(BlockWords(m, o))), m, o + 64)
    ELSE Raise

\* hashlib.sha256(msg).digest()
\* byte i of the 16-bit half v of a word: the high byte for odd i
HalfByte(v, i) == IF i % 2 = 1 THEN v \div 256 ELSE v % 256

\* the eight words of h as 32 bytes, big-endian
WordBytes(h) ==
    [i \in 1..32 |-> HalfByte(h[(i + 3) \div 4][IF (i - 1) % 4 < 2 THEN 1 ELSE 2], i)]
        \o << >>

Sha256Digest(msg) == WordBytes(Sha256Blocks(Sha256H0, Sha256Pad(msg), 0))

\* the HMAC key block: a key longer than 64 bytes is hashed, then zero-padded
ZeroPad(k) == [i \in 1..64 |-> IF i <= Len(k) THEN k[i] ELSE 0] \o << >>

HmacKeyBlock(key) == ZeroPad(IF Len(key) > 64 THEN Sha256Digest(key) ELSE key)

XorPad(block, pad) ==
    [i \in 1..64 |-> Xor16(block[i], pad)] \o << >>

\* hmac.new(key, data, hashlib.sha256).digest()
HmacOfBlock(block, data) ==
    Sha256Digest(XorPad(block, 92) \o Sha256Digest(XorPad(block, 54) \o data))

HmacSha256(key, data) == HmacOfBlock(HmacKeyBlock(key), data)

\* hmac.new(key, data, self.hash_func).digest() of the HKDF object: with the
\* library's SHA-256, or with the stand-in the handshake is explored with
hkdf_hmac(hash_func, key, data) ==
    IF hash_func = "sha256" THEN HmacSha256(key, data) ELSE hmac_new(key, data)

\* one round of the loop of HKDF.expand (lines 87-89), from the last block
\* and the output so far: T(i) = HMAC(prk, T(i-1) | info | i), okm += T(i)
ExpandStep(hash_func, prk, info, previous, okm, i) ==
    [previous |-> hkdf_hmac(hash_func, prk, previous \o info \o << i >>),
     okm |-> okm \o hkdf_hmac(hash_func, prk, previous \o info \o << i >>)]

\* rounds i+1 .. i+k of the loop from the state s; k is halved, and the first
\* half is computed (its 32 bytes a round are counted) before the second
\* begins, so that a long loop nests no deeper than a short one
RECURSIVE ExpandLoop(_, _, _, _, _, _)
ExpandLoop(hash_func, prk, info, s, i, k) ==
    IF k = 0 THEN s
    ELSE IF k = 1 THEN ExpandStep(hash_func, prk, info, s.previous, s.okm, i + 1)
    ELSE LET half == ExpandLoop(hash_func, prk, info, s, i, k \div 2)
         IN  IF Len(half.okm) = 32 * (k \div 2) + Len(s.okm)
             THEN ExpandLoop(hash_func, prk, info, half, i + (k \div 2), k - (k \div 2))
             ELSE Raise

\* the loop of HKDF.expand: okm is the concatenation of T(1) .. T(n)
ExpandRounds(hash_func, prk, info, n) ==
    ExpandLoop(hash_func, prk, info, [previous |-> << >>, okm |-> << >>], 0, n).okm

\* an expansion that rounds the number of blocks down
expand_rounded_down(hash_func, prk, length, info) ==
    IF length <= 0 THEN Raise
    ELSE IF length > 255 * 32 THEN Raise
    ELSE PySlice(ExpandRounds(hash_func, prk, info, length \div 32), 0, length)

\* HKDF.expand(prk, length, info) of an HKDF object with the hash hash_func;
\* hash_len = 32 for both
expand(hash_func, prk, length, info) ==
    IF length <= 0 THEN Raise
    ELSE IF length > 255 * 32 THEN Raise
    ELSE LET n == (length + 32 - 1) \div 32
         IN  PySlice(ExpandRounds(hash_func, prk, info, n), 0, length)

\* HKDF.extract(ikm, salt): PRK = HMAC(salt, ikm); a missing salt is 32 zeros
extract(hash_func, ikm, salt) ==
    hkdf_hmac(hash_func, IF salt = None THEN [i \in 1..32 |-> 0] \o << >> ELSE salt, ikm)

\* a derivation that never uses the salt it is given
derive_unsalted(hash_func, ikm, length, salt, info) ==
    expand(hash_func, extract(hash_func, ikm, None), length, info)

\* HKDF.derive(ikm, length, salt, info): extract, then expand
derive(hash_func, ikm, length, salt, info) ==
    expand(hash_func, extract(hash_func, ikm, salt), length, info)

\* the expected_okm literal of HKDF.verify_implementation
expected_okm ==
    << 60, 178, 95, 37, 250, 172, 213, 122, 144, 67, 79, 100, 208, 54, 47, 42,
       45, 45, 10, 144, 207, 26, 90, 76, 93, 176, 45, 86, 236, 196, 197, 191,
       52, 0, 114, 8, 213, 184, 135, 24, 88, 101 >>

\* the ikm, salt and info literals of HKDF.verify_implementation
verify_ikm == [i \in 1..22 |-> 11] \o << >>

verify_salt == [i \in 1..13 |-> i - 1] \o << >>

verify_info == [i \in 1..10 |-> 239 + i] \o << >>

\* HKDF.verify_implementation(): derived_okm == expected_okm
verify_implementation(hash_func) ==
    derive(hash_func, verify_ikm, 42, verify_salt, verify_info) = expected_okm

\* a validation that accepts every key of 16 to 32 bytes
validate_key_range(key) == Len(key) >= 16 /\ Len(key) <= 32

\* AESCipher.validate_key / algorithms.AES(key)
validate_key(key) == Len(key) \in {16, 24, 32}

\* an encryption that returns the ciphertext without the IV before it
encrypt_cbc_without_iv(plaintext, key, iv) ==
    IF Len(iv) # 16 THEN Raise
    ELSE IF ~validate_key(key) THEN Raise
    ELSE CbcEnc(key, iv, Pkcs7Pad(plaintext))

\* AESCipher.encrypt_cbc(plaintext, key, iv) with the IV supplied
encrypt_cbc(plaintext, key, iv) ==
    IF Len(iv) # 16 THEN Raise
    ELSE IF ~validate_key(key) THEN Raise
    ELSE iv \o CbcEnc(key, iv, Pkcs7Pad(plaintext))

\* AESCipher.decrypt_cbc(ciphertext, key): the first 16 bytes are the IV
decrypt_cbc(ciphertext, key) ==
    IF Len(ciphertext) < 16 THEN Raise
    ELSE IF ~validate_key(key) THEN Raise
    ELSE IF Len(PyFrom(ciphertext, 16)) % 16 # 0 THEN Raise
    ELSE Pkcs7Unpad(CbcDec(key, PySlice(ciphertext, 0, 16),
                           PyFrom(ciphertext, 16)))

\* lines 46-49 of encrypt_cbc: an IV of None is replaced by os.urandom(16)
CbcIv(iv, urandom) == IF iv = None THEN urandom ELSE iv

(***************************************************************************)
(* crypto/aes.py: AES-GCM.  The library's GCM is replaced by a stand-in    *)
(* with its structure: a key stream added to the text, and a tag that is   *)
(* the encrypted pre-counter block plus a polynomial hash, in a prime      *)
(* field, of the additional data, the ciphertext and their lengths.        *)
(***************************************************************************)
\* finalize() of a decryptor whose tag does not match
InvalidTag == << -4 >>

\* the pre-counter block of an IV
GcmJ0(iv) ==
    IF Len(iv) = 12 THEN iv \o << 0, 0, 0, 1 >>
    ELSE [i \in 1..16 |-> IF i <= Len(iv) THEN iv[i] ELSE 0] \o << >>

\* the key stream added to (sign = 1) or taken from (sign = -1) the text
GcmCrypt(key, iv, data, sign) ==
    [i \in 1..Len(data) |->
        (data[i] + sign * (KeyByte(key, i) + 3 * GcmJ0(iv)[((i - 1) % 16) + 1]
                              + 7 * i)) % 256] \o << >>

\* the hash key: a non-zero element of the field of 251 elements
GcmH(key) == (Mix(key) % 250) + 1

\* the polynomial hash of the data at the hash key
GHash(h, data) ==
    LET acc[i \in 0..Len(data)] ==
            IF i = 0 THEN 0 ELSE ((acc[i - 1] + data[i]) * h) % 251
    IN  acc[Len(data)]

\* the 16-byte tag
GcmTag(key, iv, aad, ct) ==
    LET g == GHash(GcmH(key), aad \o ct \o << Len(aad) % 251, Len(ct) % 251 >>)
    IN  Mask(EncBlock(key, GcmJ0(iv)), [i \in 1..16 |-> IF i = 1 THEN g ELSE 0])

\* `if aad:` (lines 146, 193): None and b'' authenticate nothing
GcmAad(aad) == IF aad = None THEN << >> ELSE aad

\* lines 130-133 of encrypt_gcm: an IV of None is replaced by os.urandom(12)
GcmIv(iv, urandom) == IF iv = None THEN urandom ELSE iv

\* AESCipher.encrypt_gcm(plaintext, key, iv, aad) with the IV resolved: the
\* pair (IV + ciphertext, tag)
encrypt_gcm(plaintext, key, iv, aad) ==
    IF Len(iv) \notin {12, 16} THEN Raise
    ELSE IF ~validate_key(key) THEN Raise
    ELSE << iv \o GcmCrypt(key, iv, plaintext, 1),
            GcmTag(key, iv, GcmAad(aad), GcmCrypt(key, iv, plaintext, 1)) >>

\* a decryption that returns the text without verifying the tag
decrypt_gcm_unverified(ciphertext, key, tag, aad, iv_length) ==
    IF Len(ciphertext) < iv_length THEN Raise
    ELSE IF ~validate_key(key) THEN Raise
    ELSE GcmCrypt(key, PySlice(ciphertext, 0, iv_length),
                  PyFrom(ciphertext, iv_length), -1)

\* AESCipher.decrypt_gcm(ciphertext, key, tag, aad, iv_length): the first
\* iv_length bytes are the IV; finalize() raises InvalidTag on a mismatch
decrypt_gcm(ciphertext, key, tag, aad, iv_length) ==
    IF Len(ciphertext) < iv_length THEN Raise
    ELSE IF ~validate_key(key) THEN Raise
    ELSE IF tag # GcmTag(key, PySlice(ciphertext, 0, iv_length), GcmAad(aad),
                         PyFrom(ciphertext, iv_length))
    THEN InvalidTag
    ELSE GcmCrypt(key, PySlice(ciphertext, 0, iv_length),
                  PyFrom(ciphertext, iv_length), -1)

(***************************************************************************)
(* crypto/curve.py: validation and clamping                                *)
(***************************************************************************)
\* a validation that accepts a key of any length
validate_public_key_any_length(public_key_bytes) == public_key_bytes # None

\* Curve25519.validate_public_key: False for a wrong length or when the
\* loader raises
validate_public_key(public_key_bytes) ==
    IF public_key_bytes = None THEN FALSE
    ELSE IF Len(public_key_bytes) # 32 THEN FALSE
    ELSE TRUE

\* Curve25519.validate_private_key
validate_private_key(private_key_bytes) ==
    IF private_key_bytes = None THEN FALSE
    ELSE IF Len(private_key_bytes) # 32 THEN FALSE
    ELSE TRUE

\* a clamping that leaves out `clamped[31] |= 64`
clamp_without_set(private_key_bytes) ==
    IF Len(private_key_bytes) # 32 THEN Raise
    ELSE [i \in 1..32 |->
            IF i = 1 THEN BitAnd(private_key_bytes[1], 248)
            ELSE IF i = 32 THEN BitAnd(private_key_bytes[32], 127)
            ELSE private_key_bytes[i]] \o << >>

\* Curve25519.clamp_private_key
clamp_private_key(private_key_bytes) ==
    IF Len(private_key_bytes) # 32 THEN Raise
    ELSE [i \in 1..32 |->
            IF i = 1 THEN BitAnd(private_key_bytes[1], 248)
            ELSE IF i = 32
                 THEN BitOr(BitAnd(private_key_bytes[32], 127), 64)
                 ELSE private_key_bytes[i]] \o << >>

\* Curve25519.sign_data(private_key, data) (curve.py 99-136) with the 32
\* bytes os.urandom returned: sha256(private_key | data | nonce) + nonce;
\* hasher.update of None raises, which the except block re-raises
sign_data(priv, data, nonce) ==
    IF priv = None \/ data = None THEN Raise
    ELSE sha256(priv \o data \o nonce) \o nonce

\* a verification without the length check
verify_signature_stub(pub, data, signature) == TRUE

\* Curve25519.verify_signature(public_key, data, signature) (curve.py
\* 139-171): False when the signature is not 64 bytes long, and when taking
\* its length raises (the except block returns False); otherwise the two
\* halves are sliced and True is returned, whatever the key and the data
verify_signature(pub, data, signature) ==
    IF signature = None THEN FALSE
    ELSE IF Len(signature) # 64 THEN FALSE
    ELSE TRUE

(***************************************************************************)
(* auth/qr_auth.py: QRAuth._process_shared_secret                          *)
(***************************************************************************)
\* the authentication data dictionary of lines 293-301
AuthData(cid, ek, mk, ts) ==
    [clientId |-> cid, encKey |-> ek, macKey |-> mk,
     serverToken |-> None, clientToken |-> None, authenticated |-> TRUE,
     timestamp |-> ts]

\* the None that _process_shared_secret returns after an exception
NoAuthData ==
    [clientId |-> None, encKey |-> None, macKey |-> None,
     serverToken |-> None, clientToken |-> None, authenticated |-> FALSE,
     timestamp |-> 0]

\* the same without the length check of lines 286-287
ProcessDecryptedUnchecked(decrypted_keys) ==
    IF decrypted_keys = Raise
    THEN [step |-> "decrypt", keys |-> None, decrypted |-> TRUE]
    ELSE [step |-> "ok", keys |-> decrypted_keys, decrypted |-> TRUE]

\* _process_shared_secret, lines 277-291: the decrypted keys are checked
ProcessDecrypted(decrypted_keys) ==
    IF decrypted_keys = Raise
    THEN [step |-> "decrypt", keys |-> None, decrypted |-> TRUE]
    ELSE IF Len(decrypted_keys) < 64
    THEN [step |-> "keys", keys |-> None, decrypted |-> TRUE]
    ELSE [step |-> "ok", keys |-> decrypted_keys, decrypted |-> TRUE]

\* a key exchange that decrypts the keys first and verifies the tag after
ProcessExpandedDecryptFirst(secret_public_key, hmac_validation, encrypted_keys, expanded_secret) ==
    IF ~compare_digest(hmac_validation,
                       hmac_new(PySlice(expanded_secret, 32, 64),
                                secret_public_key \o encrypted_keys))
    THEN [ProcessDecrypted(
              decrypt_cbc(PySlice(PyFrom(expanded_secret, 64), 0, 16)
                              \o encrypted_keys,
                          PySlice(expanded_secret, 0, 32)))
          EXCEPT !.step = IF @ = "ok" THEN "hmac" ELSE @, !.keys = None]
    ELSE ProcessDecrypted(
            decrypt_cbc(PySlice(PyFrom(expanded_secret, 64), 0, 16)
                            \o encrypted_keys,
                        PySlice(expanded_secret, 0, 32)))

\* lines 257-275: the tag is verified with the second 32 bytes of the expanded
\* secret, then the keys are decrypted with the first 32 bytes as key and
\* bytes 64..80 as IV; decrypted tells whether decrypt_cbc was called
ProcessExpanded(secret_public_key, hmac_validation, encrypted_keys, expanded_secret) ==
    IF ~compare_digest(hmac_validation,
                       hmac_new(PySlice(expanded_secret, 32, 64),
                                secret_public_key \o encrypted_keys))
    THEN [step |-> "hmac", keys |-> None, decrypted |-> FALSE]
    ELSE ProcessDecrypted(
            decrypt_cbc(PySlice(PyFrom(expanded_secret, 64), 0, 16)
                            \o encrypted_keys,
                        PySlice(expanded_secret, 0, 32)))

\* lines 248-255: the ECDH secret is expanded to 80 bytes
ProcessEcdh(secret_public_key, hmac_validation, encrypted_keys, ecdh_secret) ==
    IF ecdh_secret = Raise
    THEN [step |-> "ecdh", keys |-> None, decrypted |-> FALSE]
    ELSE ProcessExpanded(secret_public_key, hmac_validation, encrypted_keys,
                         expand("stand_in", ecdh_secret, 80, << >>))

\* lines 243-246: the blob is split
ProcessParts(priv, secret_public_key, hmac_validation, encrypted_keys) ==
    ProcessEcdh(secret_public_key, hmac_validation, encrypted_keys,
                compute_shared_secret(priv, secret_public_key))

\* a _process_shared_secret that splits the secret whatever its length
ProcessOutcomeUnchecked(priv, shared_secret) ==
    ProcessParts(priv, PySlice(shared_secret, 0, 32),
                 PySlice(shared_secret, 32, 64), PyFrom(shared_secret, 64))

\* the step at which _process_shared_secret leaves its try block:
\* "short", "ecdh", "hmac", "decrypt", "keys" are the raising steps, "ok" the
\* return of the dictionary
ProcessOutcome(priv, shared_secret) ==
    IF Len(shared_secret) < 96
    THEN [step |-> "short", keys |-> None, decrypted |-> FALSE]
    ELSE ProcessParts(priv, PySlice(shared_secret, 0, 32),
                      PySlice(shared_secret, 32, 64), PyFrom(shared_secret, 64))

(***************************************************************************)
(* Hex text (bytes.hex, bytes.fromhex): a sequence of digits 0..15; any    *)
(* larger number stands for a character that is no hex digit               *)
(***************************************************************************)
\* bytes.hex()
hex(b) ==
    [j \in 1..(2 * Len(b)) |->
        IF j % 2 = 1 THEN b[(j + 1) \div 2] \div 16 ELSE b[j \div 2] % 16] \o << >>

\* bytes.fromhex(t): TypeError on None, ValueError on a malformed text
fromhex(t) ==
    IF t = None THEN Raise
    ELSE IF Len(t) % 2 # 0 THEN Raise
    ELSE IF \E i \in 1..Len(t) : t[i] > 15 THEN Raise
    ELSE [i \in 1..(Len(t) \div 2) |-> t[2 * i - 1] * 16 + t[2 * i]] \o << >>

(***************************************************************************)
(* Bounds of the model                                                     *)
(***************************************************************************)
\* distinct outcomes of the random generators (os.urandom, X25519 generate)
NumKeys == 2
\* connection messages handed to handle_connection_message in one run
MaxMsgs == 2
\* calls of WhatsAppClient.start in one run
MaxStarts == 1
\* tasks running start_timeout_monitor created in one run
MaxMonitors == 1
\* the clock advances in steps of TickStep seconds up to MaxTime
TickStep == 15
MaxTime == 60
\* handlers registered with on_message, on_connection and on_qr_code in one run
MaxHandlers == 2
\* WhatsAppWebInterface.max_messages (web_interface.py 49)
max_messages == 100
\* message events the web interface receives in a run
MaxEvents == 103
\* calls of stop() in a run
MaxStops == 1
\* calls of send_text_message and send_media_message in a run
MaxSends == 2
\* frames one connection receives
MaxFrames == 2

(***************************************************************************)
(* Inputs: what the random generators return, and what the peer sends      *)
(***************************************************************************)
\* n-th outcome of X25519PrivateKey.generate()
GenPriv(n) == [i \in 1..32 |-> (n * 37 + i * 11) % 256] \o << >>

\* n-th outcome of Curve25519.generate_client_id(): base64 of 16 random bytes
generate_client_id(n) == b64encode([i \in 1..16 |-> (n * 53 + i * 3) % 256])

\* the session keys the phone sends, and trailing material after them
PeerEncKey == [i \in 1..32 |-> i]
PeerMacKey == [i \in 1..32 |-> 100 + i]
PeerExtra == [i \in 1..8 |-> 200 + i]

\* the phone's ephemeral private key
PeerPriv == [i \in 1..32 |-> (5 * i + 3) % 256]

\* the byte v with bit b flipped
FlipBit(v, b) ==
    LET w == 2 ^ b
    IN  IF (v \div w) % 2 = 1 THEN v - w ELSE v + w

\* the blob with bit `bit` of byte `pos` (0-based) flipped
FlipAt(blob, pos, bit) ==
    [i \in 1..Len(blob) |->
        IF i = pos + 1 THEN FlipBit(blob[i], bit) ELSE blob[i]] \o << >>

\* the blob: ephemeral public key, HMAC tag over key and ciphertext, ciphertext
PeerFrame(eph, hmac_key, enc) == eph \o hmac_new(hmac_key, eph \o enc) \o enc

\* the phone encrypts with the first 32 bytes of the expanded secret and the
\* IV at bytes 64..80, and tags with the second 32 bytes
PeerSeal(eph, okm, plain, padded) ==
    PeerFrame(eph, PySlice(okm, 32, 64),
              IF padded
              THEN PyFrom(encrypt_cbc(plain, PySlice(okm, 0, 32),
                                      PySlice(okm, 64, 80)), 16)
              ELSE CbcEnc(PySlice(okm, 0, 32), PySlice(okm, 64, 80), plain))

\* The shared-secret blob a phone that scanned the QR of public key `pub`
\* builds around the plaintext `plain`.  `padded` is FALSE for a phone that
\* encrypts without PKCS7 padding.
PeerBlob(pub, plain, padded) ==
    PeerSeal(public_of(PeerPriv),
             expand("stand_in", compute_shared_secret(PeerPriv, pub), 80, << >>),
             plain, padded)

\* where a tag bit is flipped: first and last byte of the tag, low and high bit
FlipPositions == {<<32, 0>>, <<32, 7>>, <<63, 0>>, <<63, 7>>}

\* the kinds of message the connection can deliver to handle_connection_message
MsgKinds ==
    {"valid", "valid_long", "min96", "bad_pad", "too_short", "bad_b64",
     "not_conn"}

MsgIds ==
    [kind : MsgKinds, key : 1..NumKeys, flip : {<<0, 0>>}]
    \cup [kind : {"tag_flip"}, key : 1..NumKeys, flip : FlipPositions]

\* what the phone encrypts in a message of each kind
PlainOf(kind) ==
    CASE kind = "valid_long" -> PeerEncKey \o PeerMacKey \o PeerExtra
      [] kind = "min96" -> PySlice(PeerEncKey, 0, 20)
      [] OTHER -> PeerEncKey \o PeerMacKey

\* what happens to the blob on its way
Damaged(m, blob) ==
    CASE m.kind = "too_short" -> PySlice(blob, 0, 95)
      [] m.kind = "tag_flip" -> FlipAt(blob, m.flip[1], m.flip[2])
      [] OTHER -> blob

\* the blob of message m, before base64
BlobOf(m) ==
    Damaged(m, PeerBlob(public_of(GenPriv(m.key)), PlainOf(m.kind),
                        m.kind # "bad_pad"))

\* the text of the 'secret' field: a text cut to 5 characters is no base64
WireText(kind, text) == IF kind = "bad_b64" THEN PySlice(text, 0, 5) ELSE text

\* The message as it arrives: shape is "conn" for ["Conn", {"secret": text}]
\* and "other" for anything else; secret is the base64 text
WireTable ==
    [m \in MsgIds |->
        [shape |-> IF m.kind = "not_conn" THEN "other" ELSE "conn",
         secret |-> WireText(m.kind, b64encode(BlobOf(m)))]] @@ << >>

\* the private keys QRAuth can hold
PrivValues == {None} \cup {GenPriv(n) : n \in 1..NumKeys}

\* the dictionary with the two halves of the key material exchanged
ProcessReturnSwapped(cid, out, ts) ==
    IF out.step = "ok"
    THEN AuthData(cid, PySlice(out.keys, 32, 64), PySlice(out.keys, 0, 32), ts)
    ELSE NoAuthData

\* lines 293-307: the dictionary is built from the first and second 32 bytes
\* of the decrypted keys; any exception gives None
ProcessReturn(cid, out, ts) ==
    IF out.step = "ok"
    THEN AuthData(cid, PySlice(out.keys, 0, 32), PySlice(out.keys, 32, 64), ts)
    ELSE NoAuthData

\* QRAuth._process_shared_secret: the dictionary, or None after any exception
process_shared_secret(cid, priv, shared_secret, ts) ==
    ProcessReturn(cid, ProcessOutcome(priv, shared_secret), ts)

(***************************************************************************)
(* The session file (client.py, _save_session / _restore_session)          *)
(***************************************************************************)
\* a key the JSON object does not have
Missing == << -3 >>

\* dict.get(key, '') on a parsed record
GetOrEmpty(v) == IF v = Missing THEN << >> ELSE v

\* dict.get(key) on a parsed record
GetOrNone(v) == IF v = Missing THEN None ELSE v

NoRecord ==
    [clientId |-> Missing, encKey |-> Missing, macKey |-> Missing,
     serverToken |-> Missing, clientToken |-> Missing]

FileAbsent == [exists |-> FALSE, json |-> FALSE, data |-> NoRecord]

\* a file that json.load rejects
FileCorrupt == [exists |-> TRUE, json |-> FALSE, data |-> NoRecord]

FileOf(record) == [exists |-> TRUE, json |-> TRUE, data |-> record]

\* the record a previous run of the client saved
SavedRecord ==
    [clientId |-> generate_client_id(1), encKey |-> hex(PeerEncKey),
     macKey |-> hex(PeerMacKey), serverToken |-> << 83 >>,
     clientToken |-> << 67 >>]

\* a hex text with one character that is no hex digit
BadHex == [i \in 1..64 |-> IF i = 64 THEN 16 ELSE 10] \o << >>

\* what the session file can hold when the client is constructed
InitialFiles ==
    { FileAbsent, FileCorrupt, FileOf(SavedRecord),
      FileOf([SavedRecord EXCEPT !.macKey = Missing]),
      FileOf([SavedRecord EXCEPT !.macKey = BadHex]),
      FileOf([SavedRecord EXCEPT !.encKey = hex(PySlice(PeerEncKey, 0, 16)),
                                 !.macKey = hex(PySlice(PeerMacKey, 0, 16))]) }

\* Session.restore(session_data): true when the record has all the required
\* fields (client id and both keys); the tokens may be null
SessionRestore(data) ==
    /\ data.clientId # Missing /\ data.clientId # None
    /\ data.encKey # Missing /\ data.encKey # None
    /\ data.macKey # Missing /\ data.macKey # None

\* the server_token / client_token Session.restore takes from the record
SessionTokens(data) ==
    [server_token |-> GetOrNone(data.serverToken),
     client_token |-> GetOrNone(data.clientToken)]

\* a dictionary with the two keys under each other's name
SaveRecordSwapped(cid, ek, mk, sess) ==
    [clientId |-> cid,
     encKey |-> IF mk = None \/ Len(mk) = 0 THEN << >> ELSE hex(mk),
     macKey |-> IF ek = None \/ Len(ek) = 0 THEN << >> ELSE hex(ek),
     serverToken |-> sess.server_token, clientToken |-> sess.client_token]

\* the dictionary _save_session writes (lines 240-246); an empty or unset key
\* is falsy and is written as ''
SaveRecord(cid, ek, mk, sess) ==
    [clientId |-> cid,
     encKey |-> IF ek = None \/ Len(ek) = 0 THEN << >> ELSE hex(ek),
     macKey |-> IF mk = None \/ Len(mk) = 0 THEN << >> ELSE hex(mk),
     serverToken |-> sess.server_token, clientToken |-> sess.client_token]

\* a record with all the required fields: a client id and two keys in
\* hexadecimal
CompleteRecord(f) ==
    /\ f.exists /\ f.json
    /\ f.data.clientId \notin {Missing, None}
    /\ f.data.encKey \notin {Missing, None}
    /\ f.data.macKey \notin {Missing, None}
    /\ fromhex(f.data.encKey) # Raise
    /\ fromhex(f.data.macKey) # Raise

\* lines 112-114: client_id is assigned, then enc_key, then mac_key; a
\* fromhex that raises leaves the assignments made before it
RestoreKeys(c1, ek, mk) ==
    IF ek = Raise THEN [ret |-> FALSE, c |-> c1]
    ELSE IF mk = Raise THEN [ret |-> FALSE, c |-> [c1 EXCEPT !.ek = ek]]
    ELSE [ret |-> TRUE, c |-> [c1 EXCEPT !.ek = ek, !.mk = mk]]

\* WhatsAppClient._restore_session on file f, from the client fields c =
\* [client_id, enc_key, mac_key]: the fields afterwards and the value returned
RestoreSession(f, c) ==
    IF ~f.exists THEN [ret |-> FALSE, c |-> c]
    ELSE IF ~f.json THEN [ret |-> FALSE, c |-> c]
    ELSE IF ~SessionRestore(f.data) THEN [ret |-> FALSE, c |-> c]
    ELSE RestoreKeys([c EXCEPT !.cid = GetOrNone(f.data.clientId)],
                     fromhex(GetOrEmpty(f.data.encKey)),
                     fromhex(GetOrEmpty(f.data.macKey)))

(***************************************************************************)
(* State                                                                   *)
(***************************************************************************)
VARIABLES
    \* QRAuth (qr_auth.py, __init__)
    qr_client_id,      \* QRAuth.client_id
    private_key,       \* QRAuth.private_key
    public_key,        \* QRAuth.public_key
    on_timeout,        \* TRUE when a QRAuth.on_timeout handler is set
    on_error,          \* TRUE when a QRAuth.on_error handler is set
    \* WhatsAppClient (client.py, __init__)
    is_authenticated,
    is_connected,
    client_id,
    enc_key,
    mac_key,
    session,           \* the Session object: server_token, client_token
    session_file,      \* the content of the file named by session_file
    \* tasks of the event loop
    pc,                \* where start() is suspended
    start_result,      \* what the last start() returned: "none", "true", "false"
    monitor,           \* the start_timeout_monitor task
    deadline,          \* when its sleep ends
    monitors,          \* start_timeout_monitor tasks created so far
    now,               \* the clock, in seconds
    starts,            \* calls of start() so far
    msgs,              \* calls of handle_connection_message so far
    \* history
    att,               \* what happened in the current authentication attempt
    last,              \* the last call of handle_connection_message
    rst,               \* what happened in the current call of start()
    \* handlers (client.py, __init__ lines 65-67; qr_auth.py, lines 43-46)
    message_handlers,  \* what each registered handler does when called
    connection_handlers,
    qr_handlers,
    cb_raises,         \* TRUE when the QRAuth.on_error handler raises
    \* WebSocketConnection (connection.py) and its _message_loop task
    ws,
    disp,              \* history: the last event handed to a handler list
    \* a caller of the crypto package (crypto/aes.py, hkdf.py, curve.py)
    call,              \* the last call of a function of the package
    \* history of the client's outbound calls and of stop() (client.py)
    outbound,          \* the last call of send_text_message / send_media_message
    stop_log,          \* the last call of stop()
    \* WhatsAppWebInterface (web_interface.py)
    web                \* recent_messages, and how many events were handled

vars ==
    << qr_client_id, private_key, public_key, on_timeout, on_error,
       is_authenticated, is_connected, client_id, enc_key, mac_key, session,
       session_file, pc, start_result, monitor, deadline, monitors, now, starts,
       msgs,
       att, last, rst, message_handlers, connection_handlers, qr_handlers,
       cb_raises, ws, disp, call, outbound, stop_log, web >>

qrauth_vars == << qr_client_id, private_key, public_key, on_timeout, on_error >>
client_vars ==
    << is_authenticated, is_connected, client_id, enc_key, mac_key, session,
       session_file >>
start_vars == << pc, start_result, starts, rst >>
monitor_vars == << monitor, deadline, monitors >>
handler_vars ==
    << message_handlers, connection_handlers, qr_handlers, cb_raises >>
frame_vars == << ws, disp >>
side_vars == << outbound, stop_log, web >>

\* QRAuth.qr_timeout, seconds
qr_timeout == 30

\* the comma of the QR text
Comma == << 65 >>

\* server references an init response can carry (text)
Refs == { << 1, 2, 3 >>, << 4, 5 >> }

\* the last call of handle_connection_message: the kind of its message,
\* whether the phone built the message for the public key QRAuth holds, the
\* value returned, the callback invoked, the dictionary handed to it
NoCall ==
    [kind |-> "none", own |-> FALSE, ret |-> FALSE, callback |-> "none",
     auth |-> NoAuthData, step |-> "none", decrypted |-> FALSE]

\* the history of an attempt that has just begun (or of no attempt)
NewAttempt(n) ==
    [n |-> n,                \* attempts begun so far
     qr |-> FALSE,           \* a QR payload was issued
     qr_at |-> 0,            \* and when
     qr_data |-> << >>,      \* and which
     qr_ref |-> << >>,       \* the ref of the init response
     gen |-> 0,              \* which outcome of the generators initialize got
     qr_calls |-> 0,         \* calls of on_qr_code
     auth_calls |-> 0,       \* calls of on_authenticated
     timeout_calls |-> 0,    \* calls of on_timeout
     error_calls |-> 0,      \* calls of on_error
     failed |-> FALSE,       \* after the QR, a well-formed Conn message failed
     timed_out |-> FALSE,    \* the timeout monitor has fired
     reset |-> FALSE]        \* reset() was called since initialize

\* no message sent
NoRequest ==
    [action |-> "none", clientId |-> None, serverToken |-> None,
     clientToken |-> None]

\* a restore message whose client id is not the restored one
RestoreRequestUnset(cid, sess) ==
    [action |-> "restore", clientId |-> None,
     serverToken |-> sess.server_token, clientToken |-> sess.client_token]

\* the restore message of _connect_with_session (lines 129-134)
RestoreRequest(cid, sess) ==
    [action |-> "restore", clientId |-> cid,
     serverToken |-> sess.server_token, clientToken |-> sess.client_token]

\* the history of a call of start() that has just begun (or of no call)
NewStart ==
    [restore_tried |-> FALSE,    \* a session file was there to restore
     restore_failed |-> FALSE,   \* and restoring from it failed
     fresh |-> FALSE,            \* _start_fresh_auth has connected or failed to
     stored |-> NoRecord,        \* the record of the file when start() began
     complete |-> FALSE,         \* which had all the required fields
     request |-> NoRequest,      \* the restore message handed to send_message
     connect_failed |-> FALSE,   \* connect() raised
     init_failed |-> FALSE]      \* QRAuth.initialize returned False

(***************************************************************************)
(* Handler dispatch (client.py 166-215, qr_auth.py 325-333)                *)
(***************************************************************************)
\* a registered handler returns, or raises an Exception
HandlerKinds == {"ok", "raise"}

\* a call that lets the handler's exception through
call_unguarded(h) == IF h = "raise" THEN "raised" ELSE "returned"

\* one handler called inside try / except Exception (client.py 179-185,
\* 195-202, 208-215): the exception is logged
call_handler(h) == IF h = "raise" THEN "caught" ELSE "returned"

\* the positions of a handler list whose call lets an exception through
RaisedAt(handlers) ==
    { i \in 1..Len(handlers) : call_handler(handlers[i]) = "raised" }

FirstOf(S) == CHOOSE i \in S : \A j \in S : i <= j

\* for handler in handlers: the positions called, in the order of the calls,
\* and whether an exception left the loop
Dispatch(handlers) ==
    IF RaisedAt(handlers) = {}
    THEN [invoked |-> [i \in 1..Len(handlers) |-> i] \o << >>,
          raised |-> FALSE]
    ELSE [invoked |-> [i \in 1..FirstOf(RaisedAt(handlers)) |-> i] \o << >>,
          raised |-> TRUE]

\* for event in events: for handler in handlers (client.py 176-185): the
\* positions called for each event
DispatchEvents(events, handlers) ==
    IF events = 0 THEN [invoked |-> << >>, raised |-> FALSE]
    ELSE IF Dispatch(handlers).raised
    THEN [invoked |-> << Dispatch(handlers).invoked >>, raised |-> TRUE]
    ELSE [invoked |-> [e \in 1..events |-> Dispatch(handlers).invoked] \o << >>,
          raised |-> FALSE]

\* a call of a QRAuth callback that lets its exception through
safe_call_unguarded(h) == IF h = "raise" THEN "raised" ELSE "returned"

\* QRAuth._safe_call_handler(handler): the exception is logged
safe_call_handler(h) == IF h = "raise" THEN "caught" ELSE "returned"

(***************************************************************************)
(* Inbound frames (connection.py 75-88, handler.py 26-65, client.py        *)
(* 166-188)                                                                *)
(***************************************************************************)
\* what a frame is: a text frame; a binary frame the reader cannot decode; a
\* binary frame of a type no handler is registered for; a Conn frame of the
\* handshake; an application frame holding one or two events; an application
\* frame whose integrity check fails
FrameKinds ==
    {"text", "undecodable", "unrouted", "conn", "app", "app2", "app_bad"}

\* text frames that hold the word "challenge" or the word "success"
MarkedTexts == {"text_challenge", "text_success"}

\* isinstance(raw_message, str) answered from the content of the frame
is_str_by_marker(f) == f \in MarkedTexts

\* isinstance(raw_message, str) (handler.py 30)
is_str(f) == f \in {"text"} \cup MarkedTexts

\* BinaryReader.read_message(message): raises, or gives the decoded message
\* with its type
read_message(f) ==
    [raised |-> f = "undecodable",
     type |-> IF f \in {"text", "undecodable", "unrouted"} \cup MarkedTexts
              THEN "unknown"
              ELSE f]

\* MessageProcessor.process_message(message, ek, mk): the number of events,
\* or an exception when the frame cannot be verified and decrypted with the
\* keys
process_message(f, ek, mk) ==
    IF ek = None \/ mk = None \/ f = "app_bad"
    THEN [raised |-> TRUE, events |-> 0]
    ELSE [raised |-> FALSE,
          events |-> IF f = "app" THEN 1 ELSE IF f = "app2" THEN 2 ELSE 0]

\* the events of a processed message handed to the handlers (client.py
\* 176-185); an exception of the processor or of the loop is caught by the
\* outer except (187-188)
EventsOutcome(p, ek, mk, handlers) ==
    [text |-> "none", reader |-> FALSE, routed |-> FALSE,
     processor |-> TRUE, keyed |-> ek # None /\ mk # None,
     events |-> p.events,
     invoked |-> IF p.raised THEN << >>
                 ELSE DispatchEvents(p.events, handlers).invoked,
     raised |-> FALSE]

\* WhatsAppClient._handle_websocket_message(message)
handle_websocket_message(f, ek, mk, handlers) ==
    EventsOutcome(process_message(f, ek, mk), ek, mk, handlers)

\* a frame that reached no handler: text is the text handler it went to,
\* reader whether read_message was called for it, routed whether a handler
\* registered for its type was called
NoOutcome(raised) ==
    [text |-> "none", reader |-> FALSE, routed |-> FALSE,
     processor |-> FALSE, keyed |-> FALSE, events |-> 0, invoked |-> << >>,
     raised |-> raised]

\* WebSocketHandler._handle_text_message(message) (lines 40-48): the
\* challenge handler, else the success handler, else nothing; each only logs
handle_text_message(f) ==
    [NoOutcome(FALSE) EXCEPT
        !.text = IF f = "text_challenge" THEN "challenge"
                 ELSE IF f = "text_success" THEN "success" ELSE "plain"]

\* a routing that hands every decoded message to the client's handler
BinaryOutcomeRouteAll(decoded, f, ek, mk, handlers) ==
    IF decoded.raised THEN [NoOutcome(TRUE) EXCEPT !.reader = TRUE]
    ELSE [handle_websocket_message(f, ek, mk, handlers)
            EXCEPT !.reader = TRUE, !.routed = TRUE]

\* WebSocketHandler._handle_binary_message up to its except block: the
\* message is decoded and handed to the handler registered for its type;
\* the handler of the routed types is the client's _handle_websocket_message
\* (client.py 74)
BinaryOutcome(decoded, f, ek, mk, handlers) ==
    IF decoded.raised THEN [NoOutcome(TRUE) EXCEPT !.reader = TRUE]
    ELSE IF decoded.type = "unknown"
    THEN [NoOutcome(FALSE) EXCEPT !.reader = TRUE]
    ELSE [handle_websocket_message(f, ek, mk, handlers)
            EXCEPT !.reader = TRUE, !.routed = TRUE]

\* an except block that raises the exception again
rethrow_frame(o) == o

\* except Exception (handler.py 37-38, 64-65): the error is logged
catch_frame(o) == [o EXCEPT !.raised = FALSE]

\* WebSocketHandler.handle_message(raw_message)
handle_message(f, ek, mk, handlers) ==
    IF is_str(f) THEN catch_frame(handle_text_message(f))
    ELSE catch_frame(BinaryOutcome(read_message(f), f, ek, mk, handlers))

\* a loop that reads the next frame whatever the state of the task
loop_ready_always(state) == state \in {"reading", "handling"}

\* _message_loop asks the socket for the next frame only when it is not
\* awaiting on_message (connection.py 78-80)
loop_ready(state) == state = "reading"

\* WebSocketConnection after __init__, with the counters of its history
NewConnection ==
    [is_connected |-> FALSE,
     loop |-> "none",        \* the _message_loop task: none, reading,
                             \* handling, ended
     cur |-> "none",         \* the frame on_message is handling
     args |-> << None, None >>,  \* the keys handed to process_message
     processor |-> FALSE,    \* process_message was called for the frame
     began |-> 0,            \* frames handed to on_message
     ended |-> 0,            \* calls of on_message that have returned
     dropped |-> 0,          \* frames that failed to decode or verify
     unrouted |-> 0,         \* frames of a type no handler is registered for
     close_calls |-> 0,      \* calls of on_close
     end_cause |-> "none"]   \* why the loop ended: closed, error,
                             \* on_message, close

\* no event dispatched yet
NoDispatch ==
    [kind |-> "none", handlers |-> << >>, events |-> 0, invoked |-> << >>,
     processor |-> FALSE, keyed |-> FALSE,
     frame |-> "none", text |-> "none", reader |-> FALSE, routed |-> FALSE]

\* an event of one kind handed once to a handler list
OneDispatch(kind, handlers) ==
    [kind |-> kind, handlers |-> handlers, events |-> 1,
     invoked |-> << Dispatch(handlers).invoked >>,
     processor |-> FALSE, keyed |-> FALSE,
     frame |-> "none", text |-> "none", reader |-> FALSE, routed |-> FALSE]

\* no function of the crypto package called yet: the function, its arguments,
\* whether it raised, the bytes it returned (out) or whether it returned True
\* (truth), and the call whose output was an argument of this one
NoCryptoCall ==
    [fn |-> "none", arg |-> << >>, raised |-> FALSE, out |-> None,
     truth |-> FALSE, from |-> << >>]

\* no send_text_message / send_media_message called yet: the calls so far,
\* and of the last one the function, is_authenticated when it was called,
\* whether upload_media and encrypt_message were called, what was handed to
\* the transport's send_message ("none", "cipher"), and the value returned
NoSend ==
    [calls |-> 0, fn |-> "none", authenticated |-> FALSE, uploaded |-> FALSE,
     encrypted |-> FALSE, handed |-> "none", ret |-> FALSE]

\* no stop() called yet: the calls so far, and the steps the last one took
\* in their order
NoStop == [calls |-> 0, steps |-> << >>]

\* WhatsAppWebInterface.__init__ (web_interface.py 47-49): the empty list,
\* with the count of the events handed to _handle_message and of those
\* whose formatting raised
NewInterface == [recent_messages |-> << >>, received |-> 0, failed |-> 0]

\* the client as constructed, before the choice of the QRAuth callbacks
InitClient ==
    /\ qr_client_id = None
    /\ private_key = None
    /\ public_key = None
    /\ is_authenticated = FALSE
    /\ is_connected = FALSE
    /\ client_id = None
    /\ enc_key = None
    /\ mac_key = None
    /\ session = [server_token |-> None, client_token |-> None]
    /\ session_file \in InitialFiles
    /\ pc = "idle"
    /\ start_result = "none"
    /\ monitor = "none"
    /\ deadline = 0
    /\ monitors = 0
    /\ now = 0
    /\ starts = 0
    /\ msgs = 0
    /\ att = NewAttempt(0)
    /\ last = NoCall
    /\ rst = NewStart
    /\ message_handlers = << >>
    /\ connection_handlers = << >>
    /\ qr_handlers = << >>
    /\ ws = NewConnection
    /\ disp = NoDispatch
    /\ call = NoCryptoCall
    /\ outbound = NoSend
    /\ stop_log = NoStop
    /\ web = NewInterface

Init ==
    /\ InitClient
    /\ on_timeout \in BOOLEAN
    /\ on_error = on_timeout
    /\ cb_raises = FALSE

(***************************************************************************)
(* client.py: start, _restore_session, _connect_with_session,              *)
(* _start_fresh_auth                                                       *)
(***************************************************************************)
\* start() up to its first suspension: _restore_session runs without awaiting,
\* then start awaits websocket_handler.connect() on one of the two paths
Start ==
    /\ pc \in {"idle", "done"}
    /\ starts < MaxStarts
    /\ \E r \in {RestoreSession(session_file,
                    [cid |-> client_id, ek |-> enc_key, mk |-> mac_key])} :
           /\ client_id' = r.c.cid
           /\ enc_key' = r.c.ek
           /\ mac_key' = r.c.mk
           /\ session' = IF session_file.exists /\ session_file.json
                            /\ SessionRestore(session_file.data)
                         THEN SessionTokens(session_file.data)
                         ELSE session
           /\ pc' = IF r.ret THEN "restore_connect" ELSE "fresh_connect"
           /\ rst' = [NewStart EXCEPT
                        !.restore_tried = session_file.exists,
                        !.restore_failed = session_file.exists /\ ~r.ret,
                        !.stored = session_file.data,
                        !.complete = CompleteRecord(session_file)]
    /\ starts' = starts + 1
    /\ start_result' = "none"
    /\ UNCHANGED << qrauth_vars, is_authenticated, is_connected, session_file,
                    monitor_vars, now, msgs, att, last >>
    /\ UNCHANGED << handler_vars, frame_vars >>
    /\ UNCHANGED << call, side_vars >>

\* _connect_with_session: connect() and the restore request succeed, or one of
\* them raises; the restore message is built and handed to send_message once
\* connect() has returned; start() returns what _connect_with_session returns
ConnectWithSession(outcome) ==
    /\ pc = "restore_connect"
    /\ pc' = "done"
    /\ start_result' = IF outcome = "ok" THEN "true" ELSE "false"
    /\ rst' = [rst EXCEPT !.restore_failed = (outcome # "ok"),
                          !.connect_failed = (outcome = "connect_raise"),
                          !.request = IF outcome = "connect_raise"
                                      THEN NoRequest
                                      ELSE RestoreRequest(client_id, session)]
    /\ UNCHANGED << qrauth_vars, client_vars, monitor_vars, now, starts, msgs,
                    att, last >>
    /\ UNCHANGED << handler_vars, frame_vars >>
    /\ UNCHANGED << call, side_vars >>

\* _start_fresh_auth when connect() raises: start() returns False
FreshConnectFails ==
    /\ pc = "fresh_connect"
    /\ pc' = "done"
    /\ start_result' = "false"
    /\ rst' = [rst EXCEPT !.fresh = TRUE, !.connect_failed = TRUE]
    /\ UNCHANGED << qrauth_vars, client_vars, monitor_vars, now, starts, msgs,
                    att, last >>
    /\ UNCHANGED << handler_vars, frame_vars >>
    /\ UNCHANGED << call, side_vars >>

\* _start_fresh_auth when connect() returns: QRAuth.initialize generates the
\* credentials (the n-th outcome of the generators), sends the init message and
\* awaits the response
Initialize(n) ==
    /\ pc = "fresh_connect"
    /\ qr_client_id' = generate_client_id(n)
    /\ private_key' = GenPriv(n)
    /\ public_key' = public_of(GenPriv(n))
    /\ pc' = "init_wait"
    /\ att' = [NewAttempt(att.n + 1) EXCEPT !.gen = n]
    /\ rst' = [rst EXCEPT !.fresh = TRUE]
    /\ UNCHANGED << on_timeout, on_error, client_vars, start_result, starts,
                    monitor_vars, now, msgs, last >>
    /\ UNCHANGED << handler_vars, frame_vars >>
    /\ UNCHANGED << call, side_vars >>

\* what send_message(init, wait_for_response=True, timeout=10.0) gives
\* initialize: a response with data [status, ref]; None after the 10 s; a
\* response without 'data'; data that is no list of two; an empty ref; or an
\* exception of the transport
InitResponses == {"ok", "timeout", "no_data", "bad_format", "no_ref", "raise"}

\* a response handling that takes an empty ref for a ref
InitAcceptedNoRefCheck(resp) ==
    /\ resp # "raise"
    /\ resp \notin {"timeout", "no_data"}
    /\ resp # "bad_format"

\* the checks between the reply of send_message and the QR code: the call
\* returned (lines 83-87), the response is not None and has 'data' (line 89),
\* the data is a list of at least two (line 104) and its ref is not empty
\* (line 108); a failed check raises into initialize's except block
InitAccepted(resp) ==
    /\ resp # "raise"
    /\ resp \notin {"timeout", "no_data"}
    /\ resp # "bad_format"
    /\ resp # "no_ref"

\* a QR text with the client id before the key
QrDataSwapped(qr_ref, pub, cid) ==
    qr_ref \o Comma \o cid \o Comma \o b64encode(pub)

\* the QR text of _generate_qr_code (lines 128-131)
QrData(qr_ref, pub, cid) ==
    qr_ref \o Comma \o b64encode(pub) \o Comma \o cid

\* _generate_qr_code hands the QR text to on_qr_code, the client's
\* _handle_qr_code (client.py 76), through _safe_call_handler (lines 136-137);
\* _handle_qr_code calls the QR handlers: what the call gives
\* _generate_qr_code, "none" when the response gave no QR
QrCallback(resp, handlers) ==
    IF ~InitAccepted(resp) THEN "none"
    ELSE safe_call_handler(IF Dispatch(handlers).raised THEN "raise" ELSE "ok")

\* initialize's except block (lines 95-99): on_error, when set, is called
\* through _safe_call_handler
ErrorCallback(failed, handler_set, raises) ==
    IF failed /\ handler_set
    THEN safe_call_handler(IF raises THEN "raise" ELSE "ok")
    ELSE "none"

\* initialize resumes with the response; an exception of _generate_qr_code
\* or of the response handling ends in initialize's except block;
\* _start_fresh_auth ignores what initialize returns and returns True, or
\* False when initialize raises
InitResponse(resp, qr_ref) ==
    /\ pc = "init_wait"
    /\ \E q \in {QrCallback(resp, qr_handlers)} :
       \E e \in {ErrorCallback(~InitAccepted(resp) \/ q = "raised", on_error,
                                cb_raises)} :
           /\ att' = IF InitAccepted(resp)
                     THEN [att EXCEPT
                             !.qr = TRUE, !.qr_at = now,
                             !.qr_data = QrData(qr_ref, public_key,
                                                qr_client_id),
                             !.qr_ref = qr_ref,
                             !.qr_calls = @ + 1,
                             !.error_calls = IF e = "none" THEN @ ELSE @ + 1]
                     ELSE [att EXCEPT
                             !.error_calls = IF e = "none" THEN @ ELSE @ + 1]
           /\ rst' = [rst EXCEPT
                        !.init_failed = (~InitAccepted(resp) \/ q = "raised")]
           /\ start_result' = IF e = "raised" THEN "false" ELSE "true"
    /\ disp' = IF InitAccepted(resp) THEN OneDispatch("qr", qr_handlers) ELSE disp
    /\ pc' = "done"
    /\ UNCHANGED << qrauth_vars, client_vars, starts, monitor_vars, now,
                    msgs, last, handler_vars, ws >>
    /\ UNCHANGED << call, side_vars >>

(***************************************************************************)
(* qr_auth.py: handle_connection_message; client.py: _handle_authentication*)
(***************************************************************************)
\* What one call of handle_connection_message(message) does with the QRAuth
\* fields cid, priv at time ts: the value returned, the callback invoked
\* ("authenticated", "error" or "none") and the dictionary handed to
\* on_authenticated
HandleReturn(auth_data) ==
    IF auth_data.authenticated
    THEN [ret |-> TRUE, callback |-> "authenticated", auth |-> auth_data]
    ELSE [ret |-> FALSE, callback |-> "error", auth |-> NoAuthData]

\* lines 206-224: the decoded secret is processed; a secret that does not
\* decode raises into the handler's except block
HandleSecret(cid, priv, shared_secret, ts) ==
    IF shared_secret = Raise
    THEN [ret |-> FALSE, callback |-> "error", auth |-> NoAuthData]
    ELSE HandleReturn(process_shared_secret(cid, priv, shared_secret, ts))

\* a handler that reports a message of another shape as an error
HandleOutcomeShapeError(cid, priv, w, ts) ==
    IF w.shape # "conn"
    THEN [ret |-> FALSE, callback |-> "error", auth |-> NoAuthData]
    ELSE HandleSecret(cid, priv, b64decode(w.secret), ts)

HandleOutcome(cid, priv, w, ts) ==
    IF w.shape # "conn"
    THEN [ret |-> FALSE, callback |-> "none", auth |-> NoAuthData]
    ELSE HandleSecret(cid, priv, b64decode(w.secret), ts)

\* where the call left _process_shared_secret ("shape" and "decode" when it
\* did not get that far) and whether decrypt_cbc was called on the way
HandleTrace(priv, w) ==
    IF w.shape # "conn" THEN [step |-> "shape", decrypted |-> FALSE]
    ELSE IF b64decode(w.secret) = Raise
    THEN [step |-> "decode", decrypted |-> FALSE]
    ELSE [step |-> ProcessOutcome(priv, b64decode(w.secret)).step,
          decrypted |-> ProcessOutcome(priv, b64decode(w.secret)).decrypted]

\* HandleTrace on the inputs of the model, computed once
TraceTable ==
    [priv \in PrivValues, m \in MsgIds |-> HandleTrace(priv, WireTable[m])]
        @@ << >>

\* HandleOutcome on the inputs of the model, computed once; the client id and
\* the time only pass through into the dictionary
HandleTable ==
    [priv \in PrivValues, m \in MsgIds |->
        HandleOutcome(None, priv, WireTable[m], 0)] @@ << >>

\* the client id and the time put into the dictionary of a looked-up outcome
WithIds(o, cid, ts) ==
    IF o.ret
    THEN [o EXCEPT !.auth = AuthData(cid, o.auth.encKey, o.auth.macKey, ts)]
    ELSE o

Handled(cid, priv, m, ts) == WithIds(HandleTable[priv, m], cid, ts)

\* handle_connection_message(message) with message m; on_authenticated is the
\* client's _handle_authentication (_setup_handlers), which sets the three
\* fields, saves the session (the write succeeds or raises inside
\* _save_session) and sets is_authenticated.  Nothing in the call suspends.
HandleConnectionMessage(m, write_ok) ==
    /\ msgs < MaxMsgs
    /\ msgs' = msgs + 1
    /\ \E o \in {Handled(qr_client_id, private_key, m, now)} :
           /\ last' = [kind |-> m.kind,
                       own |-> public_key = public_of(GenPriv(m.key)),
                       ret |-> o.ret, callback |-> o.callback, auth |-> o.auth,
                       step |-> TraceTable[private_key, m].step,
                       decrypted |-> TraceTable[private_key, m].decrypted]
           /\ IF o.callback = "authenticated"
              THEN /\ client_id' = o.auth.clientId
                   /\ enc_key' = o.auth.encKey
                   /\ mac_key' = o.auth.macKey
                   /\ session_file' =
                        IF write_ok
                        THEN FileOf(SaveRecord(o.auth.clientId, o.auth.encKey,
                                               o.auth.macKey, session))
                        ELSE session_file
                   /\ is_authenticated' = TRUE
                   /\ att' = [att EXCEPT !.auth_calls = @ + 1]
              ELSE /\ UNCHANGED << client_id, enc_key, mac_key, session_file,
                                   is_authenticated >>
                   /\ att' = [att EXCEPT
                                !.error_calls =
                                    IF o.callback = "error" /\ on_error
                                    THEN @ + 1 ELSE @,
                                !.failed = @ \/ (/\ o.callback = "error"
                                                 /\ m.kind # "bad_b64"
                                                 /\ att.qr)]
    /\ UNCHANGED << qrauth_vars, is_connected, session, start_vars,
                    monitor_vars, now >>
    /\ UNCHANGED << handler_vars, frame_vars >>
    /\ UNCHANGED << call, side_vars >>

(***************************************************************************)
(* qr_auth.py: start_timeout_monitor, run as a task by whoever starts it   *)
(***************************************************************************)
\* the task is created and reaches asyncio.sleep(self.qr_timeout)
MonitorStart ==
    /\ monitor # "sleeping"
    /\ monitors < MaxMonitors
    /\ monitors' = monitors + 1
    /\ monitor' = "sleeping"
    /\ deadline' = now + qr_timeout
    /\ UNCHANGED << qrauth_vars, client_vars, start_vars, now, msgs, att, last >>
    /\ UNCHANGED << handler_vars, frame_vars >>
    /\ UNCHANGED << call, side_vars >>

\* the sleep ends: the warning is logged and on_timeout, when set, is called
MonitorFire ==
    /\ monitor = "sleeping"
    /\ now >= deadline
    /\ monitor' = "fired"
    /\ deadline' = 0
    /\ att' = [att EXCEPT !.timed_out = TRUE,
                          !.timeout_calls = IF on_timeout THEN @ + 1 ELSE @]
    /\ UNCHANGED << qrauth_vars, client_vars, start_vars, monitors, now, msgs,
                    last >>
    /\ UNCHANGED << handler_vars, frame_vars >>
    /\ UNCHANGED << call, side_vars >>

\* the task is cancelled during its sleep: CancelledError is swallowed
MonitorCancel ==
    /\ monitor = "sleeping"
    /\ monitor' = "cancelled"
    /\ deadline' = 0
    /\ UNCHANGED << qrauth_vars, client_vars, start_vars, monitors, now, msgs,
                    att, last >>
    /\ UNCHANGED << handler_vars, frame_vars >>
    /\ UNCHANGED << call, side_vars >>

\* time passes; a sleep that is due ends before the clock moves on
Tick ==
    /\ now + TickStep <= MaxTime
    /\ ~(monitor = "sleeping" /\ now >= deadline)
    /\ now' = now + TickStep
    /\ UNCHANGED << qrauth_vars, client_vars, start_vars, monitor_vars, msgs,
                    att, last >>
    /\ UNCHANGED << handler_vars, frame_vars >>
    /\ UNCHANGED << call, side_vars >>

(***************************************************************************)
(* client.py: _handle_connection_change, stop                              *)
(***************************************************************************)
\* a connection change that forgets the session keys when the connection is
\* lost
ConnectionChangedForgets(connected) ==
    /\ is_connected' = connected
    /\ disp' = OneDispatch("connection", connection_handlers)
    /\ client_id' = IF connected THEN client_id ELSE None
    /\ enc_key' = IF connected THEN enc_key ELSE None
    /\ mac_key' = IF connected THEN mac_key ELSE None
    /\ UNCHANGED << is_authenticated, session, session_file >>

\* what _handle_connection_change(connected) does to the client: the flag
\* is set and the connection handlers are called
ConnectionChanged(connected) ==
    /\ is_connected' = connected
    /\ disp' = OneDispatch("connection", connection_handlers)
    /\ UNCHANGED << is_authenticated, client_id, enc_key, mac_key, session,
                    session_file >>

\* _handle_connection_change(connected), called by the transport when the
\* state of the connection changes
HandleConnectionChange(connected) ==
    /\ is_connected # connected
    /\ ConnectionChanged(connected)
    /\ UNCHANGED << qrauth_vars, start_vars, monitor_vars, now, msgs, att,
                    last, handler_vars, ws >>
    /\ UNCHANGED << call, side_vars >>

\* a list that is cut at its front, so that the newest entries are dropped
insert_recent_keep_oldest(recent, message_data) ==
    IF Len(recent) + 1 > max_messages
    THEN PyFrom(<< message_data >> \o recent, Len(recent) + 1 - max_messages)
    ELSE << message_data >> \o recent

\* _handle_message, lines 255-260: recent_messages.insert(0, message_data),
\* then the list is cut to its first max_messages entries when it is longer
insert_recent(recent, message_data) ==
    IF Len(recent) + 1 > max_messages
    THEN PySlice(<< message_data >> \o recent, 0, max_messages)
    ELSE << message_data >> \o recent

\* the events whose formatting may raise (an event type without a value, a
\* timestamp datetime.fromtimestamp rejects)
FailingEvents == {2, 102}

\* WhatsAppWebInterface._handle_message(event) (web_interface.py 240-265) for
\* the next event, named by its arrival number: it is formatted and stored,
\* or the formatting raises and the except block only logs
WebHandleMessage(formatted) ==
    /\ web.received < MaxEvents
    /\ formatted \/ (web.received + 1) \in FailingEvents
    /\ web' = IF formatted
              THEN [web EXCEPT
                      !.received = @ + 1,
                      !.recent_messages = insert_recent(@, web.received + 1)]
              ELSE [web EXCEPT !.received = @ + 1, !.failed = @ + 1]
    /\ UNCHANGED << qrauth_vars, client_vars, start_vars, monitor_vars, now,
                    msgs, att, last, handler_vars, frame_vars >>
    /\ UNCHANGED << call, outbound, stop_log >>

\* a reset() that forgets the client id and keeps the keypair
ResetKeepsKeys ==
    /\ pc \in {"idle", "done"}
    /\ ~att.reset
    /\ qr_client_id' = None
    /\ att' = [att EXCEPT !.reset = TRUE]
    /\ UNCHANGED << private_key, public_key, on_timeout, on_error,
                    client_vars, start_vars, monitor_vars, now, msgs, last >>
    /\ UNCHANGED << handler_vars, frame_vars >>
    /\ UNCHANGED << call, side_vars >>

\* QRAuth.reset() (qr_auth.py 335-341), called between the operations of the
\* client: client_id, private_key and public_key are set to None
Reset ==
    /\ pc \in {"idle", "done"}
    /\ ~att.reset
    /\ qr_client_id' = None
    /\ private_key' = None
    /\ public_key' = None
    /\ att' = [att EXCEPT !.reset = TRUE]
    /\ UNCHANGED << on_timeout, on_error, client_vars, start_vars,
                    monitor_vars, now, msgs, last >>
    /\ UNCHANGED << handler_vars, frame_vars >>
    /\ UNCHANGED << call, side_vars >>

\* QRAuth.is_initialized() (qr_auth.py 343-349)
is_initialized ==
    qr_client_id # None /\ private_key # None /\ public_key # None

\* the tail both send functions share (client.py 276-284, 326-334): the
\* message is handed to message_processor.encrypt_message with the client's
\* keys, what it returns is handed to websocket_handler.send_message, and
\* True is returned; an exception of either ends the function in its except
\* block, which returns False
EncryptAndSend(sent, encrypt_ok, send_ok) ==
    IF ~encrypt_ok THEN [sent EXCEPT !.encrypted = TRUE]
    ELSE [sent EXCEPT !.encrypted = TRUE, !.handed = "cipher",
                      !.ret = send_ok]

\* a send_text_message without the check of is_authenticated
send_text_message_unguarded(authenticated, encrypt_ok, send_ok) ==
    EncryptAndSend([NoSend EXCEPT !.fn = "send_text_message",
                                  !.authenticated = authenticated],
                   encrypt_ok, send_ok)

\* send_text_message(jid, text) (client.py 254-288), from is_authenticated
\* and from whether encrypt_message and send_message return or raise
send_text_message(authenticated, encrypt_ok, send_ok) ==
    IF ~authenticated
    THEN [NoSend EXCEPT !.fn = "send_text_message"]
    ELSE EncryptAndSend([NoSend EXCEPT !.fn = "send_text_message",
                                       !.authenticated = TRUE],
                        encrypt_ok, send_ok)

\* send_media_message(jid, media_path, media_type, caption) (client.py
\* 290-338): as above, with media_handler.upload_media called first
send_media_message(authenticated, upload_ok, encrypt_ok, send_ok) ==
    IF ~authenticated
    THEN [NoSend EXCEPT !.fn = "send_media_message"]
    ELSE IF ~upload_ok
    THEN [NoSend EXCEPT !.fn = "send_media_message", !.authenticated = TRUE,
                        !.uploaded = TRUE]
    ELSE EncryptAndSend([NoSend EXCEPT !.fn = "send_media_message",
                                       !.authenticated = TRUE,
                                       !.uploaded = TRUE],
                        encrypt_ok, send_ok)

\* a call of send_text_message
SendTextMessage(encrypt_ok, send_ok) ==
    /\ outbound.calls < MaxSends
    /\ outbound' = [send_text_message(is_authenticated, encrypt_ok, send_ok)
                        EXCEPT !.calls = outbound.calls + 1]
    /\ UNCHANGED << qrauth_vars, client_vars, start_vars, monitor_vars, now,
                    msgs, att, last, handler_vars, frame_vars >>
    /\ UNCHANGED << call, stop_log, web >>

\* a call of send_media_message
SendMediaMessage(upload_ok, encrypt_ok, send_ok) ==
    /\ outbound.calls < MaxSends
    /\ outbound' = [send_media_message(is_authenticated, upload_ok,
                                       encrypt_ok, send_ok)
                        EXCEPT !.calls = outbound.calls + 1]
    /\ UNCHANGED << qrauth_vars, client_vars, start_vars, monitor_vars, now,
                    msgs, att, last, handler_vars, frame_vars >>
    /\ UNCHANGED << call, stop_log, web >>

\* the steps of stop() in their order (client.py 352-371): _save_session
\* when authenticated, then the transport's disconnect(), then the reset of
\* the two flags, which a raising disconnect() skips (the except block at
\* 370-371 only logs)
StopSteps(authenticated, disconnect_ok) ==
    (IF authenticated THEN << "save" >> ELSE << >>)
    \o << "disconnect" >>
    \o (IF disconnect_ok THEN << "reset" >> ELSE << >>)

\* whether a run of stop() reached the reset of the flags (368-369)
StopResets(steps) == \E i \in 1..Len(steps) : steps[i] = "reset"

\* stop(): the session is saved when authenticated, the transport is
\* disconnected; when disconnect() raises the flags are not reset
Stop(write_ok, disconnect_ok) ==
    /\ pc \in {"idle", "done"}
    /\ is_authenticated \/ is_connected
    /\ stop_log.calls < MaxStops
    /\ session_file' =
         IF is_authenticated /\ write_ok
         THEN FileOf(SaveRecord(client_id, enc_key, mac_key, session))
         ELSE session_file
    /\ is_authenticated' =
         IF StopResets(StopSteps(is_authenticated, disconnect_ok))
         THEN FALSE ELSE is_authenticated
    /\ is_connected' =
         IF StopResets(StopSteps(is_authenticated, disconnect_ok))
         THEN FALSE ELSE is_connected
    /\ stop_log' = [calls |-> stop_log.calls + 1,
                    steps |-> StopSteps(is_authenticated, disconnect_ok)]
    /\ UNCHANGED << qrauth_vars, client_id, enc_key, mac_key, session,
                    start_vars, monitor_vars, now, msgs, att, last >>
    /\ UNCHANGED << handler_vars, frame_vars >>
    /\ UNCHANGED << call, outbound, web >>

(***************************************************************************)
(* client.py: on_message, on_connection, on_qr_code                        *)
(***************************************************************************)
Registered ==
    Len(message_handlers) + Len(connection_handlers) + Len(qr_handlers)

\* on_message(handler): the handler is appended
OnMessage(h) ==
    /\ Registered < MaxHandlers
    /\ message_handlers' = Append(message_handlers, h)
    /\ UNCHANGED << qrauth_vars, client_vars, start_vars, monitor_vars, now,
                    msgs, att, last, connection_handlers, qr_handlers,
                    cb_raises, frame_vars >>
    /\ UNCHANGED << call, side_vars >>

OnConnection(h) ==
    /\ Registered < MaxHandlers
    /\ connection_handlers' = Append(connection_handlers, h)
    /\ UNCHANGED << qrauth_vars, client_vars, start_vars, monitor_vars, now,
                    msgs, att, last, message_handlers, qr_handlers,
                    cb_raises, frame_vars >>
    /\ UNCHANGED << call, side_vars >>

OnQrCode(h) ==
    /\ Registered < MaxHandlers
    /\ qr_handlers' = Append(qr_handlers, h)
    /\ UNCHANGED << qrauth_vars, client_vars, start_vars, monitor_vars, now,
                    msgs, att, last, message_handlers, connection_handlers,
                    cb_raises, frame_vars >>
    /\ UNCHANGED << call, side_vars >>

(***************************************************************************)
(* connection.py: connect, _message_loop, close.  on_message is the        *)
(* WebSocketHandler's handle_message; on_close reports the loss to the     *)
(* client's _handle_connection_change (client.py 75)                       *)
(***************************************************************************)
\* connect() succeeds: the flag is set and the _message_loop task is created
\* (a connect() that fails leaves the flag False and creates no task)
Connect ==
    /\ ws.loop = "none"
    /\ ws' = [ws EXCEPT !.is_connected = TRUE, !.loop = "reading"]
    /\ UNCHANGED << qrauth_vars, client_vars, start_vars, monitor_vars, now,
                    msgs, att, last, handler_vars, disp >>
    /\ UNCHANGED << call, side_vars >>

\* the socket yields a frame and the loop awaits on_message(message), which
\* runs up to its first suspension: a frame that is decoded and routed is
\* handed to process_message with the keys the client has now
FrameBegin(f) ==
    /\ ws.loop \in {"reading", "handling"}
    /\ loop_ready(ws.loop)
    /\ ws.began < MaxFrames
    /\ ws' = [ws EXCEPT
                !.loop = "handling", !.cur = f, !.began = @ + 1,
                !.args = << enc_key, mac_key >>,
                !.processor =
                    handle_message(f, enc_key, mac_key,
                                   message_handlers).processor]
    /\ UNCHANGED << qrauth_vars, client_vars, start_vars, monitor_vars, now,
                    msgs, att, last, handler_vars, disp >>
    /\ UNCHANGED << call, side_vars >>

\* on_message(message) returns, or raises into the loop's except Exception
\* (lines 86-88), which clears the flag and ends the task
FrameEnd ==
    /\ ws.loop = "handling"
    /\ \E o \in {handle_message(ws.cur, ws.args[1], ws.args[2],
                                 message_handlers)} :
           /\ ws' = [ws EXCEPT
                       !.loop = IF o.raised THEN "ended" ELSE "reading",
                       !.is_connected = IF o.raised THEN FALSE ELSE @,
                       !.end_cause = IF o.raised THEN "on_message" ELSE @,
                       !.cur = "none",
                       !.args = << None, None >>,
                       !.processor = FALSE,
                       !.ended = @ + 1,
                       !.dropped = IF ws.cur \in {"undecodable", "app_bad"}
                                   THEN @ + 1 ELSE @,
                       !.unrouted = IF o.reader /\ ~o.routed /\ ~o.raised
                                       /\ ws.cur = "unrouted"
                                    THEN @ + 1 ELSE @]
           /\ disp' = [kind |-> "message", handlers |-> message_handlers,
                       events |-> o.events, invoked |-> o.invoked,
                       processor |-> o.processor, keyed |-> o.keyed,
                       frame |-> ws.cur, text |-> o.text,
                       reader |-> o.reader, routed |-> o.routed]
    /\ UNCHANGED << qrauth_vars, client_vars, start_vars, monitor_vars, now,
                    msgs, att, last, handler_vars >>
    /\ UNCHANGED << call, side_vars >>

\* the socket raises ConnectionClosed (lines 81-85): the flag is cleared and
\* on_close is awaited, which hands False to _handle_connection_change
ConnectionClosed ==
    /\ ws.loop = "reading"
    /\ ws' = [ws EXCEPT !.loop = "ended", !.is_connected = FALSE,
                        !.close_calls = @ + 1, !.end_cause = "closed"]
    /\ ConnectionChanged(FALSE)
    /\ UNCHANGED << qrauth_vars, start_vars, monitor_vars, now, msgs, att,
                    last, handler_vars >>
    /\ UNCHANGED << call, side_vars >>

\* the socket raises another exception (lines 86-88): the flag is cleared
LoopError ==
    /\ ws.loop = "reading"
    /\ ws' = [ws EXCEPT !.loop = "ended", !.is_connected = FALSE,
                        !.end_cause = "error"]
    /\ UNCHANGED << qrauth_vars, client_vars, start_vars, monitor_vars, now,
                    msgs, att, last, handler_vars, disp >>
    /\ UNCHANGED << call, side_vars >>

\* close(): the socket is closed and the flag cleared; the loop ends
\* without a call of on_close
Close ==
    /\ ws.loop \in {"reading", "handling"}
    /\ ws' = [ws EXCEPT !.loop = "ended", !.is_connected = FALSE,
                        !.cur = "none", !.args = << None, None >>,
                        !.processor = FALSE, !.end_cause = "close"]
    /\ UNCHANGED << qrauth_vars, client_vars, start_vars, monitor_vars, now,
                    msgs, att, last, handler_vars, disp >>
    /\ UNCHANGED << call, side_vars >>

(***************************************************************************)
(* A caller of the crypto package: the functions are static and keep no    *)
(* state, so the caller's state is its last call.  A call is made on fresh *)
(* arguments or on the output of the call before it.                       *)
(***************************************************************************)
MaxPlainLen == 33
MaxKeyLen == 33
MaxGcmLen == 1

\* everything but the caller's last call
program_vars ==
    << qrauth_vars, client_vars, start_vars, monitor_vars, now, msgs, att,
       last, handler_vars, frame_vars, side_vars >>

\* plaintexts: a ramp of bytes, and bytes that all look like a padding of one
PlainKinds == {"ramp", "ones"}
Plain(n, kind) ==
    [i \in 1..n |-> IF kind = "ramp" THEN (7 * i + n) % 256 ELSE 1] \o << >>

\* a key, an IV, additional data of n bytes
AesKey(n) == [i \in 1..n |-> (13 * i + n) % 256] \o << >>
Iv(n) == [i \in 1..n |-> (29 * i + 5) % 256] \o << >>

\* outcomes of os.urandom(n)
Urandom(n) == {[i \in 1..n |-> (17 * i + s) % 256] \o << >> : s \in {40, 90}}

\* the key lengths a cipher is asked for: the three valid ones, their
\* neighbours and the empty key
CipherKeyLens == {0, 15, 16, 17, 24, 32, 33}

\* the IV arguments of encrypt_cbc: none, 16 bytes, and two wrong lengths
CbcIvArgs == {None, Iv(16), Iv(15), Iv(12)}

\* the IV arguments of encrypt_gcm: none, 12 or 16 bytes, and a wrong length
GcmIvArgs == {None, Iv(12), Iv(16), Iv(8)}

\* the additional data of a GCM call
AadArgs == {None, << 7, 9 >>}

\* a call on fresh arguments
FreshCall(fn, arg, out) ==
    [fn |-> fn, arg |-> arg, raised |-> out \in {Raise, InvalidTag},
     out |-> out, truth |-> FALSE, from |-> << >>]

\* a call on the output of the call c
NextCall(fn, arg, out, c) ==
    [fn |-> fn, arg |-> arg, raised |-> out \in {Raise, InvalidTag},
     out |-> out, truth |-> FALSE, from |-> << c >>]

\* AESCipher.validate_key(key)
ValidateKey(key) ==
    /\ call.fn = "none"
    /\ call' = [FreshCall("validate_key", << key >>, None) EXCEPT
                  !.truth = validate_key(key)]
    /\ UNCHANGED program_vars

\* AESCipher.encrypt_cbc(plaintext, key, iv)
EncryptCbc(plaintext, key, iv, urandom) ==
    /\ call.fn = "none"
    /\ call' = FreshCall("encrypt_cbc", << plaintext, key, iv >>,
                         encrypt_cbc(plaintext, key, CbcIv(iv, urandom)))
    /\ UNCHANGED program_vars

\* AESCipher.decrypt_cbc on what encrypt_cbc returned, with the same key
DecryptCbc ==
    /\ call.fn = "encrypt_cbc" /\ ~call.raised
    /\ call' = NextCall("decrypt_cbc", << call.out, call.arg[2] >>,
                        decrypt_cbc(call.out, call.arg[2]), call)
    /\ UNCHANGED program_vars

\* AESCipher.encrypt_gcm(plaintext, key, iv, aad)
EncryptGcm(plaintext, key, iv, aad, urandom) ==
    /\ call.fn = "none"
    /\ call' = FreshCall("encrypt_gcm", << plaintext, key, iv, aad >>,
                         encrypt_gcm(plaintext, key, GcmIv(iv, urandom), aad))
    /\ UNCHANGED program_vars

\* what reaches the receiver of a pair (IV + ciphertext, tag): the pair
\* itself, or the pair with one bit of one of the two flipped
Received(pair, part, pos, bit) ==
    IF part = 0 THEN pair
    ELSE [pair EXCEPT ![part] = FlipAt(pair[part], pos, bit)]

\* AESCipher.decrypt_gcm on the pair received, with the key and the
\* additional data of the encryption
DecryptGcm(part, pos, bit, iv_length) ==
    /\ call.fn = "encrypt_gcm" /\ ~call.raised
    /\ part # 0 => pos < Len(call.out[part])
    /\ part = 0 => (pos = 0 /\ bit = 0)
    /\ \E r \in {Received(call.out, part, pos, bit)} :
           call' = [NextCall("decrypt_gcm",
                             << r[1], call.arg[2], r[2], call.arg[4],
                                iv_length >>,
                             decrypt_gcm(r[1], call.arg[2], r[2], call.arg[4],
                                         iv_length),
                             call)
                      EXCEPT !.from = << [call EXCEPT !.from = << part >>] >>]
    /\ UNCHANGED program_vars

\* Curve25519.compute_shared_secret(private_key, public_key)
ComputeSharedSecret(priv, pub) ==
    /\ call.fn = "none"
    /\ call' = FreshCall("compute_shared_secret", << priv, pub >>,
                         compute_shared_secret(priv, pub))
    /\ UNCHANGED program_vars

\* Curve25519.validate_public_key(key)
ValidatePublicKey(key) ==
    /\ call.fn = "none"
    /\ call' = [FreshCall("validate_public_key", << key >>, None) EXCEPT
                  !.truth = validate_public_key(key)]
    /\ UNCHANGED program_vars

\* Curve25519.validate_private_key(key)
ValidatePrivateKey(key) ==
    /\ call.fn = "none"
    /\ call' = [FreshCall("validate_private_key", << key >>, None) EXCEPT
                  !.truth = validate_private_key(key)]
    /\ UNCHANGED program_vars

\* Curve25519.clamp_private_key(key)
ClampPrivateKey(key) ==
    /\ call.fn = "none"
    /\ call' = FreshCall("clamp_private_key", << key >>,
                         clamp_private_key(key))
    /\ UNCHANGED program_vars

\* Curve25519.clamp_private_key on a key it returned
ClampAgain ==
    /\ call.fn = "clamp_private_key" /\ ~call.raised /\ call.from = << >>
    /\ call' = NextCall("clamp_private_key", << call.out >>,
                        clamp_private_key(call.out), call)
    /\ UNCHANGED program_vars

\* Curve25519.sign_data(private_key, data)
SignData(priv, data, nonce) ==
    /\ call.fn = "none"
    /\ call' = FreshCall("sign_data", << priv, data, nonce >>,
                         sign_data(priv, data, nonce))
    /\ UNCHANGED program_vars

\* Curve25519.verify_signature on a signature sign_data returned, with the
\* public key of the signer, or with another key and other data
VerifySigned(genuine) ==
    /\ call.fn = "sign_data"
    /\ ~call.raised
    /\ call' = [NextCall("verify_signature",
                         IF genuine
                         THEN << public_of(call.arg[1]), call.arg[2], call.out >>
                         ELSE << public_of(PeerPriv), call.arg[2] \o << 1 >>,
                                 call.out >>,
                         None, call)
                    EXCEPT !.truth =
                        IF genuine
                        THEN verify_signature(public_of(call.arg[1]),
                                              call.arg[2], call.out)
                        ELSE verify_signature(public_of(PeerPriv),
                                              call.arg[2] \o << 1 >>, call.out)]
    /\ UNCHANGED program_vars

\* Curve25519.verify_signature on a signature nobody made
VerifySignature(pub, data, signature) ==
    /\ call.fn = "none"
    /\ call' = [FreshCall("verify_signature", << pub, data, signature >>, None)
                    EXCEPT !.truth = verify_signature(pub, data, signature)]
    /\ UNCHANGED program_vars

\* HKDF.expand(prk, length, info)
Expand(prk, length, info) ==
    /\ call.fn = "none"
    /\ call' = FreshCall("expand", << prk, length, info >>,
                         expand("stand_in", prk, length, info))
    /\ UNCHANGED program_vars

\* HKDF(hash_func).derive(ikm, length, salt, info)
Derive(hash_func, ikm, length, salt, info) ==
    /\ call.fn = "none"
    /\ call' = FreshCall("derive", << ikm, length, salt, info, hash_func >>,
                         derive(hash_func, ikm, length, salt, info))
    /\ UNCHANGED program_vars

\* HKDF().verify_implementation()
VerifyImplementation ==
    /\ call.fn = "none"
    /\ call' = [FreshCall("verify_implementation", << >>, None)
                    EXCEPT !.truth = verify_implementation("sha256")]
    /\ UNCHANGED program_vars

\* bytes that matter to the clamping: all bits clear or set, and each bit
\* the masks touch alone and with its neighbours
ClampBytes == {0, 1, 7, 8, 63, 64, 127, 128, 191, 192, 248, 255}

\* a key of n bytes with the given first and last byte
CurveKey(n, first, final) ==
    [i \in 1..n |-> IF i = 1 THEN first ELSE IF i = n THEN final
                    ELSE (3 * i + 1) % 256] \o << >>

\* the key lengths of the curve functions: 32 bytes, its neighbours, the
\* AES-128 length and the empty key
CurveKeyLens == {0, 16, 31, 32, 33}

\* the keys handed to the curve functions
CurveKeys ==
    {CurveKey(n, 9, 200) : n \in CurveKeyLens}
        \cup {CurveKey(32, first, final) : first, final \in ClampBytes}

\* the lengths asked of expand: none, one byte, around one and two hash
\* outputs, the 80 bytes of the handshake, and around the largest length
ExpandLengths == {-1, 0, 1, 31, 32, 33, 63, 64, 65, 80, 8160, 8161}

\* pseudorandom keys and info texts for expand
Prks == {AesKey(32), Iv(32)}
Infos == {<< >>, << 1, 2, 3 >>}

\* the derivations asked of an HKDF object: the one of verify_implementation,
\* the same without a salt and with no length, under the library's SHA-256,
\* and the same three under the stand-in
\* signatures nobody made: 0, 63, 64 and 65 zero bytes, and no bytes object
ForgedSignatures ==
    {[i \in 1..n |-> 0] \o << >> : n \in {0, 63, 64, 65}} \cup {None}

DeriveArgs ==
    {<< hash_func, verify_ikm, 42, salt, verify_info >> :
        hash_func \in {"sha256", "stand_in"}, salt \in {verify_salt, None}}
      \cup {<< hash_func, verify_ikm, 0, verify_salt, verify_info >> :
                hash_func \in {"sha256", "stand_in"}}

CryptoSteps ==
    \/ \E n \in 0..MaxKeyLen : ValidateKey(AesKey(n))
    \/ \E n \in 0..MaxPlainLen, kind \in PlainKinds, k \in CipherKeyLens,
          iv \in CbcIvArgs, urandom \in Urandom(16) :
           EncryptCbc(Plain(n, kind), AesKey(k), iv, urandom)
    \/ DecryptCbc
    \/ \E n \in 0..MaxGcmLen, k \in {15, 16, 32}, iv \in GcmIvArgs,
          aad \in AadArgs, urandom \in Urandom(12) :
           EncryptGcm(Plain(n, "ramp"), AesKey(k), iv, aad, urandom)
    \/ \E part \in 0..2, pos \in 0..(16 + MaxGcmLen), bit \in 0..7,
          iv_length \in {12, 16} :
           DecryptGcm(part, pos, bit, iv_length)
    \/ \E priv, pub \in {CurveKey(n, 9, 200) : n \in CurveKeyLens} :
           ComputeSharedSecret(priv, pub)
    \/ \E key \in CurveKeys : ValidatePublicKey(key)
    \/ \E key \in CurveKeys : ValidatePrivateKey(key)
    \/ \E key \in CurveKeys : ClampPrivateKey(key)
    \/ ClampAgain
    \/ \E prk \in Prks, length \in ExpandLengths, info \in Infos :
           Expand(prk, length, info)
    \/ \E d \in DeriveArgs : Derive(d[1], d[2], d[3], d[4], d[5])
    \/ VerifyImplementation
    \/ \E priv \in {CurveKey(32, 9, 200), None}, n \in {0, 5},
          nonce \in Urandom(32) :
           SignData(priv, Plain(n, "ramp"), nonce)
    \/ \E genuine \in BOOLEAN : VerifySigned(genuine)
    \/ \E pub \in {CurveKey(32, 9, 200), None}, signature \in ForgedSignatures :
           VerifySignature(pub, Plain(5, "ramp"), signature)

(***************************************************************************)
(* Specification                                                           *)
(***************************************************************************)
\* start() on the fresh path, the handshake it begins, and the messages
HandshakeSteps ==
    \/ Start
    \/ FreshConnectFails
    \/ \E n \in 1..NumKeys : Initialize(n)
    \/ \E resp \in InitResponses, qr_ref \in Refs : InitResponse(resp, qr_ref)
    \/ \E m \in MsgIds, write_ok \in BOOLEAN : HandleConnectionMessage(m, write_ok)

\* start() on the restore path
RestoreSteps ==
    \E outcome \in {"ok", "connect_raise", "send_raise"} :
        ConnectWithSession(outcome)

\* the timeout monitor and the clock
MonitorSteps ==
    \/ MonitorStart
    \/ MonitorFire
    \/ MonitorCancel
    \/ Tick

\* the transport's connection callback and stop()
ClientSteps ==
    \/ \E connected \in BOOLEAN : HandleConnectionChange(connected)
    \/ \E write_ok \in BOOLEAN, disconnect_ok \in BOOLEAN :
            Stop(write_ok, disconnect_ok)

\* a client constructed where no session file exists
InitFresh == Init /\ session_file = FileAbsent

\* The handshake alone
SpecHandshake == InitFresh /\ [][HandshakeSteps]_vars

\* The crypto package alone, called by a client that does nothing else
InitCrypto == InitFresh /\ on_error
SpecCrypto == InitCrypto /\ [][CryptoSteps]_vars

\* The handshake with its timeout monitor
NextAuth == HandshakeSteps \/ MonitorSteps
SpecAuth == InitFresh /\ [][NextAuth]_vars

\* The client with any session file, without the timeout monitor
NextClient == HandshakeSteps \/ RestoreSteps \/ ClientSteps
SpecClient == Init /\ [][NextClient]_vars

\* registration of handlers
RegisterSteps ==
    \E h \in HandlerKinds : OnMessage(h) \/ OnConnection(h) \/ OnQrCode(h)

\* one connection and its read loop
FrameSteps ==
    \/ Connect
    \/ \E f \in FrameKinds : FrameBegin(f)
    \/ FrameEnd
    \/ ConnectionClosed
    \/ LoopError
    \/ Close

\* start() up to the QR, without the messages of the phone
StartSteps ==
    \/ Start
    \/ FreshConnectFails
    \/ Initialize(1)
    \/ \E resp \in InitResponses, qr_ref \in Refs : InitResponse(resp, qr_ref)
    \/ RestoreSteps

\* a client with no session file or with a saved one, whose on_error
\* handler returns or raises
InitDispatch ==
    /\ InitClient
    /\ session_file \in {FileAbsent, FileOf(SavedRecord)}
    /\ on_timeout = TRUE
    /\ on_error = TRUE
    /\ cb_raises \in BOOLEAN

\* The read loop, start() up to the QR, and the dispatch of events to the
\* handlers of the three kinds
NextDispatch ==
    \/ RegisterSteps
    \/ FrameSteps
    \/ StartSteps
SpecDispatch == InitDispatch /\ [][NextDispatch]_vars

\* a client with no session file or with a saved one, and no QRAuth
\* callbacks set
InitFrames ==
    /\ InitClient
    /\ session_file \in {FileAbsent, FileOf(SavedRecord)}
    /\ on_timeout = FALSE
    /\ on_error = FALSE
    /\ cb_raises = FALSE

\* The read loop of a client that restores its keys or fails to connect,
\* with message and connection handlers
NextFrames ==
    \/ \E h \in HandlerKinds : OnMessage(h) \/ OnConnection(h)
    \/ FrameSteps
    \/ Start
    \/ FreshConnectFails
    \/ RestoreSteps
SpecFrames == InitFrames /\ [][NextFrames]_vars

\* The read loop handed frames of every kind, text frames with and without
\* the words the text handler looks for, by a client that restores its keys
\* or fails to connect
NextWire ==
    \/ \E h \in HandlerKinds : OnMessage(h)
    \/ Connect
    \/ \E f \in FrameKinds \cup MarkedTexts : FrameBegin(f)
    \/ FrameEnd
    \/ Start
    \/ FreshConnectFails
    \/ RestoreSteps
SpecWire == InitFrames /\ [][NextWire]_vars

\* start() on both paths with any session file, and the transport's
\* connection callback
NextRestore ==
    \/ StartSteps
    \/ \E connected \in BOOLEAN : HandleConnectionChange(connected)
SpecRestore == Init /\ [][NextRestore]_vars

\* The connection and what its changes do to a client that restores a
\* session or starts without one
NextLoss ==
    \/ Start
    \/ FreshConnectFails
    \/ RestoreSteps
    \/ \E h \in HandlerKinds : OnConnection(h)
    \/ \E connected \in BOOLEAN : HandleConnectionChange(connected)
    \/ Connect
    \/ ConnectionClosed
    \/ LoopError
    \/ Close
SpecLoss == Init /\ [][NextLoss]_vars

\* Everything together
\* the key exchange with reset() called at any time between the steps
NextReset ==
    \/ Start
    \/ FreshConnectFails
    \/ \E n \in 1..NumKeys : Initialize(n)
    \/ \E resp \in {"ok", "timeout"} : InitResponse(resp, << 1, 2, 3 >>)
    \/ \E m \in MsgIds : HandleConnectionMessage(m, TRUE)
    \/ Reset
SpecReset == InitFresh /\ [][NextReset]_vars

\* the web interface receiving message events
NextWeb == \E formatted \in BOOLEAN : WebHandleMessage(formatted)
SpecWeb == InitFresh /\ [][NextWeb]_vars

\* the client sending while it authenticates
SendSteps ==
    \/ \E encrypt_ok, send_ok \in BOOLEAN : SendTextMessage(encrypt_ok, send_ok)
    \/ \E upload_ok, encrypt_ok, send_ok \in BOOLEAN :
           SendMediaMessage(upload_ok, encrypt_ok, send_ok)

\* the Conn messages the sending client receives: its own blob, intact and
\* with a broken padding
SendMsgIds == [kind : {"valid", "bad_pad"}, key : {1}, flip : {<< 0, 0 >>}]

NextSend ==
    \/ Start
    \/ FreshConnectFails
    \/ Initialize(1)
    \/ \E resp \in {"ok", "timeout"} : InitResponse(resp, << 1, 2, 3 >>)
    \/ \E m \in SendMsgIds, write_ok \in BOOLEAN :
           HandleConnectionMessage(m, write_ok)
    \/ SendSteps
SpecSend == InitFresh /\ [][NextSend]_vars

Next ==
    \/ HandshakeSteps \/ RestoreSteps \/ MonitorSteps \/ ClientSteps
    \/ RegisterSteps \/ FrameSteps \/ SendSteps \/ Reset \/ NextWeb
Spec == Init /\ [][Next]_vars

(***************************************************************************)
(* Properties                                                              *)
(***************************************************************************)
\* a step that is one call of handle_connection_message
IsMessageStep == msgs' = msgs + 1

\* the step stays in the authentication attempt it started in
SameAttempt == att'.n = att.n

\* C1: once initialize has issued a QR payload and the QR window (qr_timeout)
\* has passed without a successful key exchange, the attempt has timed out
\* and on_timeout has been called exactly once
C1_TimeoutFiresOnce ==
    (att.qr /\ att.auth_calls = 0 /\ now > att.qr_at + qr_timeout)
        => (att.timed_out /\ att.timeout_calls = 1)

\* the timeout monitor is asleep, it went to sleep before the last call of
\* handle_connection_message, and that call succeeded before its sleep was due
MonitorSleptThroughSuccess ==
    /\ monitor = "sleeping"
    /\ last.ret
    /\ deadline - qr_timeout < last.auth.timestamp
    /\ last.auth.timestamp < deadline

\* C2: after a QR was issued and the key exchange has succeeded while the
\* timeout monitor was asleep, no step of that attempt calls on_timeout
C2_NoTimeoutAfterSuccess ==
    [][(att.qr /\ att.auth_calls > 0 /\ MonitorSleptThroughSuccess /\ SameAttempt)
            => att'.timeout_calls = att.timeout_calls]_vars

\* the steps at which _process_shared_secret leaves when handed the blobs
\* with one tag bit flipped, under the private key they were built for
TagFlipSteps ==
    { ProcessOutcome(GenPriv(m.key), BlobOf(m)).step :
        m \in {x \in MsgIds : x.kind = "tag_flip"} }

\* C3: a Conn message whose blob has one bit of its tag flipped fails at the
\* HMAC comparison: the call returns False, on_authenticated is not called
\* and the client's client_id, keys, flag and session file stay as they were
C3_TagFlipRejected ==
    [][(IsMessageStep /\ last'.kind = "tag_flip" /\ last'.own)
            => /\ TagFlipSteps = {"hmac"}
               /\ ~last'.ret
               /\ last'.callback = "error"
               /\ att'.auth_calls = att.auth_calls
               /\ UNCHANGED << client_id, enc_key, mac_key, is_authenticated,
                               session_file >>]_vars

\* a handshake in progress has received a tag-flipped blob built for its own
\* key, and the client is still unauthenticated
C3_Witness ==
    /\ att.qr
    /\ last.kind = "tag_flip" /\ last.own /\ ~last.ret
    /\ enc_key = None /\ mac_key = None /\ ~is_authenticated

\* the kinds of message whose blob the phone built whole: at least 96 bytes,
\* with the tag the receiver recomputes
CorrectTagKinds == {"valid", "valid_long", "min96", "bad_pad"}

\* every such blob built for a key of the model has 96 bytes or more and
\* passes the HMAC comparison of _process_shared_secret
CorrectTagBlobs ==
    \A m \in {x \in MsgIds : x.kind \in CorrectTagKinds} :
        /\ Len(BlobOf(m)) >= 96
        /\ ProcessOutcome(GenPriv(m.key), BlobOf(m)).step
                \notin {"short", "ecdh", "hmac"}

\* the dictionary of the last call holds the first and the next 32 bytes of
\* what the phone encrypted, and the client holds the same keys
KeysDelivered(plain) ==
    /\ last'.auth.encKey = PySlice(plain, 0, 32)
    /\ last'.auth.macKey = PySlice(plain, 32, 64)
    /\ Len(last'.auth.encKey) = 32
    /\ Len(last'.auth.macKey) = 32
    /\ enc_key' = last'.auth.encKey
    /\ mac_key' = last'.auth.macKey

DecryptsToKeys(kind) == kind # "bad_pad" /\ Len(PlainOf(kind)) >= 64

C5_KeysBothOrNeither ==
    \/ enc_key = None /\ mac_key = None
    \/ /\ enc_key # None /\ mac_key # None
       /\ Len(enc_key) = 32 /\ Len(mac_key) = 32

\* C6: is_authenticated is true if and only if both session keys are set
C6_AuthenticatedIffKeys ==
    is_authenticated <=> (enc_key # None /\ mac_key # None)

\* C7: in an attempt whose QR was issued, on_authenticated is called at most
\* once, however many messages arrive
C7_AuthenticatedOnce == att.qr => att.auth_calls <= 1

\* C8: once the QR window has passed and the timeout monitor has fired, no
\* step of the same attempt calls on_authenticated
C8_TimedOutTerminal ==
    [][(/\ att.timed_out /\ att.qr /\ now >= att.qr_at + qr_timeout
        /\ SameAttempt)
            => att'.auth_calls = att.auth_calls]_vars

\* C9: once handle_connection_message has failed on a well-formed Conn
\* message, no step of the same attempt calls on_authenticated
C9_FailedTerminal ==
    [][(att.failed /\ SameAttempt) => att'.auth_calls = att.auth_calls]_vars

\* C10: when start() has returned after a failure on the restore path, fresh
\* authentication was started and, until it succeeds, client_id, enc_key and
\* mac_key are unset
C10_RestoreFailureFallsBack ==
    (pc = "done" /\ rst.restore_failed)
        => /\ rst.fresh
           /\ att.auth_calls = 0
                => (client_id = None /\ enc_key = None /\ mac_key = None)

\* C11: in a call of start() that found a session file with all the required
\* fields, no key pair is generated, no authentication attempt begins and no
\* QR is issued, start() does not enter _start_fresh_auth, and the restore
\* message handed to the transport carries the client id and the tokens of
\* the file
C11_RestoreSkipsHandshake ==
    [][rst'.complete =>
        /\ ~rst'.fresh
        /\ pc' \in {"restore_connect", "done"}
        /\ private_key' = private_key /\ public_key' = public_key
        /\ qr_client_id' = qr_client_id
        /\ att'.n = att.n /\ att'.qr_calls = att.qr_calls
        /\ rst'.request \in
             { NoRequest,
               [action |-> "restore", clientId |-> rst'.stored.clientId,
                serverToken |-> rst'.stored.serverToken,
                clientToken |-> rst'.stored.clientToken] }]_vars

\* a start() that restored a complete record and sent its restore message
C11_Witness ==
    /\ rst.complete /\ pc = "done" /\ start_result = "true"
    /\ rst.request.action = "restore"
    /\ rst.request.clientId = generate_client_id(1)
    /\ rst.request.serverToken = << 83 >>

\* C12: when start() has returned after connect() failed or after
\* QRAuth.initialize failed, it has returned False
C12_HandshakeFailureReturnsFalse ==
    (pc = "done" /\ (rst.connect_failed \/ rst.init_failed))
        => start_result = "false"

\* a frame is handed to on_message
IsFrameBegin == ws'.began = ws.began + 1

\* a call of on_message returns
IsFrameEnd == ws'.ended = ws.ended + 1

\* C13: a frame received after the QR was issued and while enc_key or mac_key
\* is unset is not handed to the message processor, and when it is a Conn
\* frame it is handed to QRAuth.handle_connection_message
C13_HandshakeFramesReachQRAuth ==
    [][(IsFrameBegin /\ att.qr /\ (enc_key = None \/ mac_key = None)) =>
        /\ ~ws'.processor
        /\ ws'.cur = "conn" => msgs' = msgs + 1]_vars

\* C14: a frame is handed to on_message only when the call of on_message for
\* every earlier frame of the connection has returned
C14_FramesInArrivalOrder ==
    [][IsFrameBegin => ws.ended = ws.began]_vars

\* the second frame is being processed after the first was completed
C14_Witness ==
    ws.began = MaxFrames /\ ws.ended = MaxFrames - 1 /\ ws.loop = "handling"

\* the positions of all the handlers of a list, in the order of registration
AllInOrder(handlers) == [i \in 1..Len(handlers) |-> i] \o << >>

\* C15: a frame that fails to decode or to verify is dropped without an event,
\* the loop keeps reading and both connection flags stay as they were; a valid
\* application frame handled with the keys set gives each of its events to
\* every message handler, whatever was dropped before
C15_BadFrameDroppedAlone ==
    [][IsFrameEnd =>
        /\ ws.cur \in {"undecodable", "app_bad"} =>
              /\ ws'.loop = "reading"
              /\ ws'.is_connected = ws.is_connected
              /\ is_connected' = is_connected
              /\ disp'.invoked = << >>
        /\ (ws.cur \in {"app", "app2"} /\ None \notin {ws.args[1], ws.args[2]}) =>
              /\ ws'.loop = "reading"
              /\ disp'.events = (IF ws.cur = "app" THEN 1 ELSE 2)
              /\ Len(disp'.invoked) = disp'.events
              /\ \A e \in 1..Len(disp'.invoked) :
                    disp'.invoked[e] = AllInOrder(message_handlers)]_vars

\* a valid frame was dispatched after a frame was dropped
C15_Witness ==
    /\ ws.dropped = 1 /\ ws.ended = 2 /\ ws.loop = "reading"
    /\ ws.is_connected
    /\ disp.kind = "message" /\ disp.events = 2
    /\ disp.invoked = << << 1 >>, << 1 >> >>

\* C16: the read loop never ends because on_message raised; every event is
\* handed to its handler list to the end; and initialize's result does not
\* depend on what the QR handlers and on_error do: start() returns True, and
\* a QR that was issued is not turned into a failure
C16_HandlerExceptionsContained ==
    [][/\ ws'.end_cause # "on_message"
       /\ disp' # disp => Len(disp'.invoked) = disp'.events
       /\ (pc = "init_wait" /\ pc' = "done") =>
             /\ start_result' = "true"
             /\ att'.qr => ~rst'.init_failed]_vars

\* on_error raised during a failed initialize and a connection handler raised
C16_Witness ==
    /\ cb_raises /\ rst.init_failed /\ att.error_calls = 1
    /\ start_result = "true"
    /\ disp.kind = "connection" /\ disp.handlers = << "raise", "ok" >>

\* C17: every event handed to a handler list reaches each handler of the list
\* once, in the order of registration, whether or not a handler raises
C17_AllHandlersInOrder ==
    /\ Len(disp.invoked) = disp.events
    /\ \A e \in 1..Len(disp.invoked) :
          disp.invoked[e] = AllInOrder(disp.handlers)

\* two events were handed to two handlers, the first of which raises
C17_Witness ==
    /\ disp.kind = "message" /\ disp.events = 2
    /\ disp.handlers = << "raise", "ok" >>

\* C18: when the read loop ends because the connection was closed or because
\* reading failed, is_connected is cleared and on_close is called
C18_LossSurfaced ==
    [][(ws.loop = "reading" /\ ws'.end_cause \in {"closed", "error"}) =>
          /\ ~ws'.is_connected
          /\ ws'.close_calls = ws.close_calls + 1]_vars

\* C19: a step that changes is_connected of the client or of the connection
\* leaves client_id, enc_key and mac_key as they were
C19_KeysSurviveLoss ==
    [][(is_connected' # is_connected \/ ws'.is_connected # ws.is_connected)
          => UNCHANGED << client_id, enc_key, mac_key >>]_vars

\* the connection of a client holding restored keys was closed
C19_Witness ==
    /\ ws.end_cause = "closed" /\ disp.kind = "connection"
    /\ ~is_connected
    /\ client_id = generate_client_id(1)
    /\ enc_key = PeerEncKey /\ mac_key = PeerMacKey

\* C20: once the QR is issued in an attempt, on_qr_code has been called once
\* in it, with the ref of the response, a comma, base64 of the public key
\* generated in the attempt, a comma and the client id generated in the
\* attempt
C20_QrPayload ==
    att.qr =>
        /\ att.qr_calls = 1
        /\ att.qr_data =
             att.qr_ref \o Comma \o b64encode(public_of(GenPriv(att.gen)))
                \o Comma \o generate_client_id(att.gen)

\* the QR of a second outcome of the generators, with the shorter ref
C20_Witness ==
    /\ att.qr /\ att.gen = 2 /\ att.qr_ref = << 4, 5 >>
    /\ disp.kind = "qr"

\* C21: when the response to the init message is missing, has no data, is
\* malformed, has an empty ref, or the bounded wait ends in an exception,
\* initialize returns False, calls on_error once (when a handler is set) and
\* never twice, and issues no QR: on_qr_code is not called and no QR event is
\* dispatched
C21_InitFailureReportedOnce ==
    [][\A resp \in InitResponses \ {"ok"}, qr_ref \in Refs :
          InitResponse(resp, qr_ref) =>
              /\ rst'.init_failed
              /\ att'.error_calls =
                     att.error_calls + (IF on_error THEN 1 ELSE 0)
              /\ ~att'.qr
              /\ att'.qr_calls = att.qr_calls
              /\ att'.qr_data = att.qr_data
              /\ disp' = disp]_vars

\* initialize has returned False after one call of on_error, with no QR
C21_Witness ==
    /\ pc = "done" /\ rst.init_failed
    /\ on_error /\ att.error_calls = 1
    /\ ~att.qr /\ att.qr_calls = 0 /\ disp.kind = "none"

\* the secrets of the model that decode to fewer than 96 bytes, decoded
ShortSecrets ==
    {b64decode(WireTable[m].secret) : m \in {x \in MsgIds : x.kind = "too_short"}}

\* every short secret and every prefix of it leaves _process_shared_secret
\* at the length check, whatever the private key
ShortSecretsStopAtCheck ==
    \A shared_secret \in ShortSecrets, priv \in PrivValues :
        /\ Len(shared_secret) < 96
        /\ \A n \in 0..95 :
               ProcessOutcome(priv, PySlice(shared_secret, 0, n))
                   = [step |-> "short", keys |-> None, decrypted |-> FALSE]

\* C22: a call of handle_connection_message (a step that counts a message)
\* whose decoded secret has fewer than 96 bytes leaves
\* _process_shared_secret at the length check, before the ECDH, the
\* expansion and the decryption; the call returns False through the error
\* path and sets no key, no authentication and no session file
C22_ShortSecretRejected ==
    [][(msgs' # msgs /\ last'.kind = "too_short") =>
          /\ ShortSecretsStopAtCheck
          /\ ~last'.ret /\ last'.callback = "error"
          /\ last'.auth = NoAuthData
          /\ UNCHANGED << client_id, enc_key, mac_key, is_authenticated,
                          session_file >>]_vars

\* a 95-byte secret sealed for the client's own public key was handed to the
\* handler after the QR and was refused
C22_Witness ==
    /\ last.kind = "too_short" /\ last.own /\ att.qr
    /\ ~last.ret /\ last.callback = "error"
    /\ enc_key = None /\ mac_key = None /\ ~is_authenticated

\* a text of 64 hexadecimal digits
IsHex64(t) == Len(t) = 64 /\ \A i \in 1..64 : t[i] \in 0..15

\* C23: the file written by a successful authentication (a handled message
\* that calls on_authenticated and changes the file) holds a record with
\* exactly the keys clientId, encKey, macKey, serverToken, clientToken, whose
\* encKey and macKey are 64 hexadecimal digits, and _restore_session on that
\* file, from a client with no keys, returns True and sets the client_id,
\* enc_key and mac_key the authentication set
C23_SaveRestoreRoundTrip ==
    [][(msgs' # msgs /\ last'.callback = "authenticated"
            /\ session_file' # session_file)
          => /\ session_file'.exists /\ session_file'.json
             /\ DOMAIN session_file'.data =
                  {"clientId", "encKey", "macKey", "serverToken",
                   "clientToken"}
             /\ IsHex64(session_file'.data.encKey)
             /\ IsHex64(session_file'.data.macKey)
             /\ RestoreSession(session_file',
                               [cid |-> None, ek |-> None, mk |-> None])
                  = [ret |-> TRUE,
                     c |-> [cid |-> client_id', ek |-> enc_key',
                            mk |-> mac_key']]]_vars

\* a fresh authentication has saved the keys the peer sent
C23_Witness ==
    /\ last.callback = "authenticated" /\ is_authenticated
    /\ session_file = FileOf(SaveRecord(client_id, enc_key, mac_key, session))
    /\ enc_key = PeerEncKey /\ mac_key = PeerMacKey /\ client_id # None

\* C25: encrypt_cbc with a key of 16, 24 or 32 bytes and an IV that is
\* generated or has 16 bytes returns the IV followed by whole blocks, and
\* decrypt_cbc of what it returned, with the same key, returns the plaintext
C25_CbcRoundTrip ==
    /\ (/\ call.fn = "encrypt_cbc"
        /\ Len(call.arg[2]) \in {16, 24, 32}
        /\ (call.arg[3] = None \/ Len(call.arg[3]) = 16))
           => /\ ~call.raised
              /\ Len(call.out) = 16 + 16 * ((Len(call.arg[1]) \div 16) + 1)
              /\ call.arg[3] # None => PySlice(call.out, 0, 16) = call.arg[3]
    /\ call.fn = "decrypt_cbc"
           => /\ ~call.raised
              /\ call.out = call.from[1].arg[1]

\* a plaintext of two blocks and a byte, each byte a 1, came back from an
\* encryption under a 24-byte key with a generated IV
C25_Witness ==
    /\ call.fn = "decrypt_cbc"
    /\ call.from[1].arg = << Plain(33, "ones"), AesKey(24), None >>
    /\ call.out = Plain(33, "ones")
    /\ PySlice(call.arg[1], 0, 16) \in Urandom(16)

\* C26: decrypt_gcm on a pair (IV + ciphertext, tag) returned by encrypt_gcm,
\* with one bit of the first or of the second part flipped, raises and
\* returns no text whatever iv_length it is given; the exception is
\* InvalidTag unless the first part is shorter than iv_length, which the
\* length check refuses before the tag is looked at.  On the pair as
\* returned, with the IV length of the encryption, it returns the plaintext
C26_GcmTamperDetected ==
    call.fn = "decrypt_gcm" =>
        /\ call.from[1].from # << 0 >> =>
               /\ call.raised
               /\ call.out = IF Len(call.arg[1]) < call.arg[5]
                             THEN Raise ELSE InvalidTag
        /\ (/\ call.from[1].from = << 0 >>
            /\ call.arg[5] = Len(call.arg[1]) - Len(call.from[1].arg[1]))
               => call.out = call.from[1].arg[1]

\* the last bit of the ciphertext of a one-byte plaintext was flipped
C26_Witness ==
    /\ call.fn = "decrypt_gcm"
    /\ call.from[1].from = << 1 >>
    /\ call.from[1].arg = << Plain(1, "ramp"), AesKey(16), None, << 7, 9 >> >>
    /\ call.arg[5] = 12
    /\ call.arg[1] = FlipAt(call.from[1].out[1], 12, 7)
    /\ call.out = InvalidTag

\* C27: validate_key returns True for a key of 16, 24 or 32 bytes and False
\* for a key of any other length, the empty key and a 33-byte key included;
\* encrypt_cbc and encrypt_gcm with a key of any other length raise and
\* return no ciphertext, whatever the plaintext and the IV
C27_KeyLengths ==
    /\ call.fn = "validate_key" =>
           (call.truth <=> Len(call.arg[1]) \in {16, 24, 32})
    /\ (call.fn \in {"encrypt_cbc", "encrypt_gcm"}
           /\ Len(call.arg[2]) \notin {16, 24, 32})
           => (call.raised /\ call.out = Raise)

\* a 17-byte key was refused by validate_key
C27_Witness ==
    /\ call.fn = "validate_key" /\ call.arg = << AesKey(17) >>
    /\ ~call.truth

\* a 33-byte key made encrypt_cbc raise on a plaintext of one block with a
\* valid IV
C27_WitnessCipher ==
    /\ call.fn = "encrypt_cbc"
    /\ call.arg = << Plain(16, "ramp"), AesKey(33), Iv(16) >>
    /\ call.raised

\* C28: expand(prk, length, info) raises exactly when length <= 0 or
\* length > 255 * 32; otherwise it returns length bytes in which block i (32
\* bytes, the last one cut at length) is HMAC(prk, block i-1 | info | i), the
\* block before the first being empty, for i = 1 .. ceil(length / 32)
C28_ExpandChain ==
    call.fn = "expand" =>
        \A length \in {call.arg[2]} :
            /\ call.raised <=> (length <= 0 \/ length > 255 * 32)
            /\ ~call.raised =>
                   /\ Len(call.out) = length
                   /\ \A i \in 1..((length + 31) \div 32) :
                          PySlice(call.out, 32 * (i - 1), 32 * i)
                            = PySlice(hmac_new(call.arg[1],
                                          (IF i = 1 THEN << >>
                                           ELSE PySlice(call.out, 32 * (i - 2),
                                                        32 * (i - 1)))
                                            \o call.arg[3] \o << i >>),
                                      0, length - 32 * (i - 1))

\* the longest expansion: 255 blocks
C28_Witness ==
    /\ call.fn = "expand" /\ call.arg[2] = 8160 /\ call.arg[3] = << 1, 2, 3 >>
    /\ ~call.raised /\ Len(call.out) = 8160

\* the functions of curve.py that take a key
CurveFunctions ==
    {"compute_shared_secret", "validate_public_key", "validate_private_key",
     "clamp_private_key"}

\* the call c was handed a key that has not exactly 32 bytes
WrongKeyLength(c) == \E i \in 1..Len(c.arg) : Len(c.arg[i]) # 32

\* C29 (as stated): each of the four functions raises when a key it is given
\* has not exactly 32 bytes
C29_WrongLengthRaises ==
    (call.fn \in CurveFunctions /\ WrongKeyLength(call)) => call.raised

\* C29 (amended): given a key that has not exactly 32 bytes,
\* compute_shared_secret and clamp_private_key raise and return nothing,
\* while validate_public_key and validate_private_key return False without
\* raising; a call of any of the four changes nothing but the caller's
\* record of it
C29_WrongLengthRejected ==
    [][(call'.fn \in CurveFunctions /\ call' # call) =>
          /\ UNCHANGED program_vars
          /\ WrongKeyLength(call') =>
                IF call'.fn \in {"compute_shared_secret", "clamp_private_key"}
                THEN call'.raised /\ call'.out = Raise
                ELSE ~call'.raised /\ ~call'.truth
          /\ (~WrongKeyLength(call')
                /\ call'.fn \in {"validate_public_key",
                                 "validate_private_key"})
                => call'.truth]_vars

\* compute_shared_secret was handed a 32-byte private key and a 31-byte
\* public key, and raised
C29_Witness ==
    /\ call.fn = "compute_shared_secret"
    /\ call.arg = << CurveKey(32, 9, 200), CurveKey(31, 9, 200) >>
    /\ call.raised

\* C30: clamp_private_key on a 32-byte key returns 32 bytes in which the
\* three lowest bits of byte 0 are clear, the highest bit of byte 31 is clear
\* and the one below it is set, and every other bit is the key's; clamping
\* the result again returns it unchanged
C30_Clamp ==
    (call.fn = "clamp_private_key" /\ Len(call.arg[1]) = 32) =>
        \A key \in {call.arg[1]}, out \in {call.out} :
            /\ ~call.raised /\ Len(out) = 32
            /\ out[1] % 8 = 0
            /\ out[1] \div 8 = key[1] \div 8
            /\ out[32] \div 128 = 0
            /\ (out[32] \div 64) % 2 = 1
            /\ out[32] % 64 = key[32] % 64
            /\ \A i \in 2..31 : out[i] = key[i]
            /\ call.from # << >> => out = key

\* a key whose first and last byte have every bit set was clamped, and the
\* result clamped again
C30_Witness ==
    /\ call.fn = "clamp_private_key" /\ call.from # << >>
    /\ call.from[1].arg = << CurveKey(32, 255, 255) >>
    /\ call.out[1] = 248 /\ call.out[32] = 127
    /\ call.out = call.arg[1]


\* C24: derive(IKM, 42, salt, info) under SHA-256 with the inputs of RFC 5869
\* Test Case 1 (IKM = 22 bytes 0x0b, salt = 0x00 .. 0x0c, info = 0xf0 .. 0xf9)
\* returns exactly the 42 bytes the RFC publishes as OKM
C24_Rfc5869TestCase1 ==
    (/\ call.fn = "derive"
     /\ call.arg = << << 11, 11, 11, 11, 11, 11, 11, 11, 11, 11, 11,
                         11, 11, 11, 11, 11, 11, 11, 11, 11, 11, 11 >>,
                      42,
                      << 0, 1, 2, 3, 4, 5, 6, 7, 8, 9, 10, 11, 12 >>,
                      << 240, 241, 242, 243, 244, 245, 246, 247, 248, 249 >>,
                      "sha256" >>)
        => call.out = << 60, 178, 95, 37, 250, 172, 213, 122, 144, 67, 79, 100,
                         208, 54, 47, 42, 45, 45, 10, 144, 207, 26, 90, 76,
                         93, 176, 45, 86, 236, 196, 197, 191, 52, 0, 114, 8,
                         213, 184, 135, 24, 88, 101 >>

\* the derivation of Test Case 1 was made and returned 42 bytes
C24_Witness ==
    /\ call.fn = "derive" /\ call.arg[5] = "sha256" /\ call.arg[2] = 42
    /\ call.arg[3] = << 0, 1, 2, 3, 4, 5, 6, 7, 8, 9, 10, 11, 12 >>
    /\ ~call.raised /\ Len(call.out) = 42


\* the calls whose blob carries a tag other than the HMAC recomputed from it:
\* the private key QRAuth holds and a message whose secret decodes to 96
\* bytes or more
TagMismatches ==
    { c \in (PrivValues \ {None}) \X MsgIds :
        /\ WireTable[c[2]].shape = "conn"
        /\ b64decode(WireTable[c[2]].secret) # Raise
        /\ \E blob \in {b64decode(WireTable[c[2]].secret)} :
              /\ Len(blob) >= 96
              /\ PySlice(blob, 32, 64)
                   # hmac_new(PySlice(expand("stand_in",
                                             compute_shared_secret(
                                                 c[1], PySlice(blob, 0, 32)),
                                             80, << >>), 32, 64),
                              PySlice(blob, 0, 32) \o PyFrom(blob, 64)) }

\* the same calls as the history records them
TagMismatchCalls ==
    { [kind |-> c[2].kind, own |-> c[1] = GenPriv(c[2].key)] :
        c \in TagMismatches }

\* C31: a call of handle_connection_message whose blob carries a tag that is
\* not the recomputed HMAC leaves _process_shared_secret at the comparison:
\* decrypt_cbc is not called, no enc_key / mac_key is produced, the call
\* returns False and the client's keys stay as they were
C31_TagCheckedBeforeDecryption ==
    [][(/\ msgs' # msgs
        /\ private_key # None
        /\ [kind |-> last'.kind, own |-> last'.own] \in TagMismatchCalls)
          => /\ last'.step = "hmac"
             /\ ~last'.decrypted
             /\ last'.auth = NoAuthData
             /\ ~last'.ret /\ last'.callback # "authenticated"
             /\ enc_key' = enc_key /\ mac_key' = mac_key]_vars

\* a blob sealed for another key than the one QRAuth holds was handed in and
\* was rejected at the comparison
C31_Witness ==
    /\ last.kind = "valid" /\ ~last.own /\ private_key # None
    /\ last.step = "hmac" /\ ~last.decrypted


\* the frames that arrive as text
TextFrames == {"text", "text_challenge", "text_success"}

\* C32: a text frame goes to the text handler (the challenge handler when it
\* holds "challenge", else the success handler when it holds "success") and is
\* never handed to read_message, to a registered handler or to the message
\* processor; a binary frame is handed to read_message and to no text handler
C32_TextOrBinary ==
    [][IsFrameEnd =>
        /\ disp'.frame = ws.cur
        /\ ws.cur \in TextFrames =>
              /\ disp'.text = (IF ws.cur = "text_challenge" THEN "challenge"
                               ELSE IF ws.cur = "text_success" THEN "success"
                               ELSE "plain")
              /\ ~disp'.reader /\ ~disp'.routed /\ ~disp'.processor
              /\ ~ws.processor
              /\ disp'.invoked = << >>
        /\ ws.cur \notin TextFrames =>
              /\ disp'.text = "none"
              /\ disp'.reader]_vars

\* a text frame without a marker came out of the text handler as the second
\* frame of its connection, never decoded
C32_Witness ==
    /\ disp.frame = "text" /\ disp.text = "plain" /\ ~disp.reader
    /\ ws.ended = 2

\* C33: a binary frame whose type no handler is registered for is decoded and
\* dropped: no registered handler, no message handler and no processor is
\* called, on_message returns without an exception, the loop keeps reading
\* and the connection flags stay as they were; a frame of a registered type
\* is handed to its handler whatever was dropped before it
C33_UnroutedDropped ==
    [][IsFrameEnd =>
        /\ ws.cur = "unrouted" =>
              /\ disp'.reader /\ ~disp'.routed /\ ~disp'.processor
              /\ disp'.events = 0 /\ disp'.invoked = << >>
              /\ ws'.loop = "reading" /\ ws'.end_cause = ws.end_cause
              /\ ws'.is_connected = ws.is_connected
              /\ is_connected' = is_connected
        /\ ws.cur \in {"conn", "app", "app2", "app_bad"} =>
              /\ disp'.routed /\ disp'.processor
              /\ ws'.loop = "reading"
        /\ (ws.cur = "app2" /\ None \notin {ws.args[1], ws.args[2]}) =>
              disp'.invoked = << AllInOrder(message_handlers),
                                 AllInOrder(message_handlers) >>]_vars

\* after a frame of an unregistered type was dropped, a frame with two events
\* was handed to the message handler
C33_Witness ==
    /\ ws.ended = 2 /\ ws.dropped = 0 /\ ws.loop = "reading" /\ ws.is_connected
    /\ disp.frame = "app2" /\ disp.routed /\ disp.invoked = << << 1 >>, << 1 >> >>
    /\ ws.unrouted = 1


\* C34: when the tag is right and decrypt_cbc fails on the padding, or
\* yields fewer than 64 bytes, the call produces no auth data, returns False
\* without the authenticated callback, and the client's keys and
\* is_authenticated stay as they were
C34_BadPlaintextFails ==
    [][(/\ msgs' # msgs
        /\ private_key # None
        /\ last'.own
        /\ last'.kind \in {"bad_pad", "min96"})
       => /\ last'.decrypted
          /\ last'.step = (IF last'.kind = "bad_pad" THEN "decrypt" ELSE "keys")
          /\ last'.auth = NoAuthData
          /\ ~last'.ret
          /\ last'.callback # "authenticated"
          /\ att'.auth_calls = att.auth_calls
          /\ enc_key' = enc_key /\ mac_key' = mac_key
          /\ is_authenticated' = is_authenticated]_vars

\* a blob with the right tag whose plaintext has 20 bytes was decrypted and
\* rejected at the length check
C34_Witness ==
    /\ last.kind = "min96" /\ last.own /\ private_key # None
    /\ last.step = "keys" /\ last.decrypted /\ ~last.ret


\* C35 (as stated): every call of verify_signature returns True
C35_AlwaysTrue == call.fn = "verify_signature" => call.truth

\* C35 (amended): verify_signature returns True exactly for the signatures of
\* 64 bytes, whatever the public key and the data, and False for every other
\* signature
C35_TrueFor64Bytes ==
    call.fn = "verify_signature" =>
        call.truth = (call.arg[3] # None /\ Len(call.arg[3]) = 64)

\* a signature made by sign_data was accepted under another public key and
\* for other data than the signed ones
C35_Witness ==
    /\ call.fn = "verify_signature" /\ call.from # << >>
    /\ call.from[1].fn = "sign_data"
    /\ call.arg[2] # call.from[1].arg[2]
    /\ call.arg[1] # public_of(call.from[1].arg[1])
    /\ Len(call.arg[3]) = 64
    /\ call.truth


\* C36: a call of send_text_message or send_media_message made while
\* is_authenticated is false returns False with nothing uploaded, nothing
\* handed to encrypt_message and nothing handed to the transport; whatever is
\* handed to the transport was returned by encrypt_message in a call made
\* while authenticated, and only such a call returns True; the call changes
\* nothing of the client
C36_NoSendUnauthenticated ==
    [][outbound'.calls = outbound.calls + 1 =>
        /\ outbound'.authenticated = is_authenticated
        /\ ~is_authenticated =>
              /\ ~outbound'.ret /\ ~outbound'.uploaded /\ ~outbound'.encrypted
              /\ outbound'.handed = "none"
        /\ outbound'.handed # "none" =>
              /\ is_authenticated /\ outbound'.encrypted
              /\ outbound'.handed = "cipher"
        /\ outbound'.ret => outbound'.handed = "cipher"
        /\ outbound'.fn = "send_text_message" => ~outbound'.uploaded
        /\ UNCHANGED << is_authenticated, is_connected, enc_key, mac_key >>]_vars

\* with a QR code issued, but no authentication yet, a text message was
\* refused
C36_Witness ==
    /\ outbound.calls >= 1 /\ outbound.fn = "send_text_message"
    /\ ~outbound.authenticated /\ ~outbound.ret /\ outbound.handed = "none"
    /\ ~is_authenticated /\ att.qr


\* C37: while QRAuth holds no keypair of an initialize, that is before the
\* first initialize and from a reset() to the next initialize, is_initialized
\* is false and every call of handle_connection_message, whatever the message,
\* returns False, produces no auth data, does not call the authenticated
\* callback and leaves is_authenticated and the client's keys as they were
C37_NoKeypairNoAuthentication ==
    [][(att.n = 0 \/ att.reset) =>
        /\ ~is_initialized
        /\ msgs' # msgs =>
              /\ ~last'.ret
              /\ last'.callback # "authenticated"
              /\ last'.auth = NoAuthData
              /\ att'.auth_calls = att.auth_calls
              /\ UNCHANGED << is_authenticated, enc_key, mac_key, client_id >>]_vars

\* after a QR code was issued and reset() was called, a well-formed blob was
\* handled and rejected at the key agreement
C37_Witness ==
    /\ att.reset /\ att.qr /\ private_key = None
    /\ last.kind = "valid" /\ last.step = "ecdh" /\ ~last.ret


\* C38: one call of handle_connection_message calls the authenticated
\* callback once and returns True, or calls the error callback (when one is
\* set) once and returns False, or calls neither and returns False, which is
\* what a message of another shape than ["Conn", {secret}] gets; it returns
\* True exactly when it produced auth data; client_id, private_key and
\* public_key of QRAuth are the same after the call as before
C38_HandleFrame ==
    [][msgs' # msgs =>
        /\ att'.auth_calls - att.auth_calls \in {0, 1}
        /\ att'.error_calls - att.error_calls \in {0, 1}
        /\ (att'.auth_calls - att.auth_calls)
              + (att'.error_calls - att.error_calls) <= 1
        /\ last'.callback \in {"authenticated", "error", "none"}
        /\ last'.ret <=> last'.callback = "authenticated"
        /\ last'.ret <=> att'.auth_calls = att.auth_calls + 1
        /\ last'.ret <=> last'.auth # NoAuthData
        /\ att'.error_calls = att.error_calls + 1
              <=> (last'.callback = "error" /\ on_error)
        /\ last'.kind = "not_conn" =>
              /\ ~last'.ret /\ last'.callback = "none"
              /\ att'.auth_calls = att.auth_calls
              /\ att'.error_calls = att.error_calls
        /\ UNCHANGED << qr_client_id, private_key, public_key >>]_vars

\* with an error callback set, a message that is no Conn message was handled
\* after a key exchange had succeeded: False, and no callback was called
C38_Witness ==
    /\ on_error /\ msgs >= 2 /\ att.auth_calls = 1 /\ att.error_calls = 0
    /\ last.kind = "not_conn" /\ ~last.ret /\ last.callback = "none"


\* C39: a call of stop() saves the session exactly when the client is
\* authenticated, and before the transport is disconnected, and when it
\* returns is_authenticated and is_connected are both false, whether the
\* disconnect returned or raised
C39_StopResetsFlags ==
    [][stop_log'.calls = stop_log.calls + 1 =>
        /\ stop_log'.steps[1] = (IF is_authenticated THEN "save" ELSE "disconnect")
        /\ \A i \in 1..Len(stop_log'.steps) :
              /\ stop_log'.steps[i] = "save" => i = 1
              /\ stop_log'.steps[i] = "disconnect" =>
                    i = (IF is_authenticated THEN 2 ELSE 1)
        /\ ~is_authenticated'
        /\ ~is_connected']_vars


\* C40: after every message event the list holds at most max_messages
\* entries in the order newest first; an event that is stored becomes entry 0,
\* the entries before it follow in their order, and when the list was full
\* the one dropped is its last, the oldest; an event whose formatting raises
\* leaves the list as it was
C40_RecentMessages ==
    [][web'.received = web.received + 1 =>
        /\ Len(web'.recent_messages) <= max_messages
        /\ \A i \in 1..(Len(web'.recent_messages) - 1) :
              web'.recent_messages[i] > web'.recent_messages[i + 1]
        /\ web'.failed = web.failed =>
              /\ web'.recent_messages[1] = web'.received
              /\ Len(web'.recent_messages)
                    = Min(Len(web.recent_messages) + 1, max_messages)
              /\ \A i \in 2..Len(web'.recent_messages) :
                    web'.recent_messages[i] = web.recent_messages[i - 1]
        /\ web'.failed # web.failed =>
              web'.recent_messages = web.recent_messages]_vars

\* 102 events were stored: the list is full, the newest is first, and the
\* two oldest are gone
C40_Witness ==
    /\ web.received = max_messages + 2 /\ web.failed = 0
    /\ Len(web.recent_messages) = max_messages
    /\ web.recent_messages[1] = max_messages + 2
    /\ web.recent_messages[max_messages] = 3

=============================================================================
